---- MODULE Spec2Model ----
(***************************************************************************)
(* Model of the Jira adapter (JiraClient, jira-client.ts) and of the ADF   *)
(* document converter (adf.ts).                                            *)
(*                                                                         *)
(* The adapter is stateless: the state of the model is the call that is in *)
(* progress (its input, its position between two awaited requests, its     *)
(* local variables, the requests it has issued so far), the result of the  *)
(* call, and the state of the upstream tracker the requests are answered   *)
(* from.  Strings are sequences of one-character strings.                  *)
(***************************************************************************)
EXTENDS Integers, Sequences, FiniteSets, TLC

VARIABLES
    call,       \* the input of the adapter call in progress
    pc,         \* the position of the call: which await it is suspended at
    locals,     \* the local variables of the call
    reqs,       \* the requests the call has issued, in order
    result,     \* what the call returned or threw
    upstream,   \* the state of the tracker that answers the requests
    config,     \* the JiraConfig the client was constructed with
    history     \* what the caller keeps of earlier calls: the mode and token

vars == <<call, pc, locals, reqs, result, upstream, config, history>>

None == "none"

NoHistory == [lastMode |-> None, lastToken |-> <<>>]

\* no call is in progress
NoCall == [op |-> None]

\* a configuration without a severity field
NoConfig == [severityFieldId |-> FALSE, severityValueType |-> "option"]

Min(a, b) == IF a < b THEN a ELSE b
Max(a, b) == IF a > b THEN a ELSE b

Range(s) == {s[i] : i \in 1..Len(s)}

SeqsUpTo(S, n) == UNION {[1..k -> S] : k \in 0..n}

(***************************************************************************)
(* Characters and the string primitives of the JavaScript runtime          *)
(***************************************************************************)
LF == "\n"
CR == "\r"
SP == " "

\* String.prototype.trim() removes these from both ends
WhiteSpace == {SP, LF, CR}

RECURSIVE TrimStart(_)
TrimStart(s) ==
    IF s # <<>> /\ Head(s) \in WhiteSpace THEN TrimStart(Tail(s)) ELSE s

RECURSIVE TrimEnd(_)
TrimEnd(s) ==
    IF s # <<>> /\ s[Len(s)] \in WhiteSpace
    THEN TrimEnd(SubSeq(s, 1, Len(s) - 1))
    ELSE s

Trim(s) == TrimEnd(TrimStart(s))

\* text.replace(/\r\n/g, "\n")
RECURSIVE ReplaceCrLf(_)
ReplaceCrLf(s) ==
    IF s = <<>> THEN <<>>
    ELSE IF Len(s) >= 2 /\ s[1] = CR /\ s[2] = LF
         THEN <<LF>> \o ReplaceCrLf(SubSeq(s, 3, Len(s)))
         ELSE <<Head(s)>> \o ReplaceCrLf(Tail(s))

\* s.split("\n"): always at least one piece
RECURSIVE SplitLines(_)
SplitLines(s) ==
    IF \A i \in 1..Len(s) : s[i] # LF THEN <<s>>
    ELSE LET k == CHOOSE i \in 1..Len(s) :
                     s[i] = LF /\ \A j \in 1..(i - 1) : s[j] # LF
         IN  <<SubSeq(s, 1, k - 1)>> \o SplitLines(SubSeq(s, k + 1, Len(s)))

\* the length of the run of LF that starts s
RECURSIVE LfRun(_)
LfRun(s) == IF s # <<>> /\ Head(s) = LF THEN 1 + LfRun(Tail(s)) ELSE 0

\* text.replace(/\n{3,}/g, "\n\n")
RECURSIVE CollapseNewlines(_)
CollapseNewlines(s) ==
    IF s = <<>> THEN <<>>
    ELSE IF Head(s) = LF
         THEN LET n == LfRun(s)
              IN  (IF n >= 3 THEN <<LF, LF>> ELSE SubSeq(s, 1, n))
                      \o CollapseNewlines(SubSeq(s, n + 1, Len(s)))
         ELSE <<Head(s)>> \o CollapseNewlines(Tail(s))

RECURSIVE Concat(_)
Concat(ss) == IF ss = <<>> THEN <<>> ELSE Head(ss) \o Concat(Tail(ss))

Uppers == <<"A", "B", "C", "D", "E", "F", "G", "H", "I", "J", "K", "L", "M",
            "N", "O", "P", "Q", "R", "S", "T", "U", "V", "W", "X", "Y", "Z">>

Lowers == <<"a", "b", "c", "d", "e", "f", "g", "h", "i", "j", "k", "l", "m",
            "n", "o", "p", "q", "r", "s", "t", "u", "v", "w", "x", "y", "z">>

ToLowerChar(c) ==
    IF \E i \in 1..26 : Uppers[i] = c
    THEN Lowers[CHOOSE i \in 1..26 : Uppers[i] = c]
    ELSE c

\* String.prototype.toLowerCase()
ToLowerCase(s) == [i \in 1..Len(s) |-> ToLowerChar(s[i])]

\* values.map(trim).filter(nonempty)
RECURSIVE TrimmedNonEmpty(_)
TrimmedNonEmpty(values) ==
    IF values = <<>> THEN <<>>
    ELSE (IF Trim(Head(values)) # <<>> THEN <<Trim(Head(values))>> ELSE <<>>)
             \o TrimmedNonEmpty(Tail(values))

(***************************************************************************)
(* adf.ts                                                                  *)
(***************************************************************************)
\* a node of the document tree; an absent text or content is empty
AdfNode(type, text, content) == [type |-> type, text |-> text, content |-> content]

BlockTypes == {"paragraph", "heading", "codeBlock", "blockquote", "listItem"}

ParagraphOf(line) ==
    AdfNode("paragraph", <<>>,
            IF line # <<>> THEN <<AdfNode("text", line, <<>>)>> ELSE <<>>)

plainTextToAdfNoCrLf(text) ==
    LET lines == SplitLines(text)
    IN  AdfNode("doc", <<>>, [i \in 1..Len(lines) |-> ParagraphOf(lines[i])])

plainTextToAdf(text) ==
    LET lines == SplitLines(ReplaceCrLf(text))
    IN  AdfNode("doc", <<>>, [i \in 1..Len(lines) |-> ParagraphOf(lines[i])])

RECURSIVE renderNode(_)
renderNode(node) ==
    IF node.type = "text" THEN node.text
    ELSE IF node.type = "hardBreak" THEN <<LF>>
    ELSE LET children ==
                 Concat([i \in 1..Len(node.content) |-> renderNode(node.content[i])])
         IN  IF node.type \in BlockTypes THEN children \o <<LF>> ELSE children

\* a missing or non-object document
NullDocument == AdfNode("null", <<>>, <<>>)

adfToPlainText(document) ==
    IF document = NullDocument THEN <<>>
    ELSE Trim(CollapseNewlines(renderNode(document)))

(***************************************************************************)
(* SpecAdf: the converter applied to every bounded plain text              *)
(***************************************************************************)
MaxTextLen == 5

TextChars == {"a", SP, LF, CR}

InitAdf ==
    /\ call \in {[op |-> "roundTrip", text |-> s] : s \in SeqsUpTo(TextChars, MaxTextLen)}
    /\ pc = "start"
    /\ locals = [document |-> NullDocument]
    /\ reqs = <<>>
    /\ result = [status |-> "pending"]
    /\ upstream = [none |-> TRUE]
    /\ config = NoConfig
    /\ history = NoHistory

PlainTextToAdf ==
    /\ pc = "start"
    /\ call.op = "roundTrip"
    /\ locals' = [document |-> plainTextToAdf(call.text)]
    /\ pc' = "adf"
    /\ UNCHANGED <<call, reqs, result, upstream, config, history>>

AdfToPlainText ==
    /\ pc = "adf"
    /\ result' = [status |-> "ok", text |-> adfToPlainText(locals.document)]
    /\ pc' = "text"
    /\ UNCHANGED <<call, locals, reqs, upstream, config, history>>

NextAdf == PlainTextToAdf \/ AdfToPlainText

SpecAdf == InitAdf /\ [][NextAdf]_vars

(***************************************************************************)
(* request(): what one awaited request can come back with                  *)
(***************************************************************************)
\* a non-2xx response is thrown as a JiraApiError that carries the status
JiraApiError(status) == [kind |-> "JiraApiError", status |-> status]

\* an aborted (timed out) or failed fetch is thrown as a plain Error
PlainError(message) == [kind |-> "Error", status |-> 0, message |-> message]

TimeoutError == PlainError("Jira API request timed out")

Ok(body) == [ok |-> TRUE, body |-> body]
Fail(error) == [ok |-> FALSE, error |-> error]

\* the ways a request fails whatever the endpoint: a server error or a timeout
TransientFailures == {Fail(JiraApiError(500)), Fail(TimeoutError)}

Returned(value) == [status |-> "ok", value |-> value]
Thrown(error) == [status |-> "error", error |-> error]
Pending == [status |-> "pending"]

NoLocals == [none |-> TRUE]

(***************************************************************************)
(* Numbers as text: String(n) and Number.parseInt(token, 10)               *)
(***************************************************************************)
Digits == <<"0", "1", "2", "3", "4", "5", "6", "7", "8", "9">>

DigitChars == Range(Digits)

DigitValue(c) == (CHOOSE i \in 1..10 : Digits[i] = c) - 1

\* String(n) for n >= 0
RECURSIVE NatToString(_)
NatToString(n) ==
    IF n < 10 THEN <<Digits[n + 1]>>
    ELSE NatToString(n \div 10) \o <<Digits[(n % 10) + 1]>>

\* the longest prefix of s made of decimal digits
RECURSIVE DigitPrefix(_)
DigitPrefix(s) ==
    IF s # <<>> /\ Head(s) \in DigitChars
    THEN <<Head(s)>> \o DigitPrefix(Tail(s))
    ELSE <<>>

RECURSIVE DigitsValue(_)
DigitsValue(ds) ==
    IF ds = <<>> THEN 0
    ELSE 10 * DigitsValue(SubSeq(ds, 1, Len(ds) - 1)) + DigitValue(ds[Len(ds)])

\* Number.parseInt(s, 10): leading white space, a sign, then as many digits
\* as there are; NaN when there is no digit
ParseInt(s) ==
    LET t == TrimStart(s)
        negative == t # <<>> /\ Head(t) = "-"
        signed == t # <<>> /\ Head(t) \in {"-", "+"}
        ds == DigitPrefix(IF signed THEN Tail(t) ELSE t)
    IN  IF ds = <<>> THEN [nan |-> TRUE, value |-> 0]
        ELSE [nan |-> FALSE,
              value |-> IF negative THEN 0 - DigitsValue(ds) ELSE DigitsValue(ds)]

\* parseNextPageToken: the legacy start offset a page token stands for
parseNextPageToken(token) ==
    IF token = <<>> THEN [ok |-> TRUE, value |-> 0]
    ELSE LET parsed == ParseInt(token)
         IN  IF parsed.nan \/ parsed.value < 0
             THEN [ok |-> FALSE, value |-> 0]
             ELSE [ok |-> TRUE, value |-> parsed.value]

\* the order localeCompare gives the characters of the model: space, hyphen,
\* digits, letters without regard to case
CollationOrder == <<SP, "-">> \o Digits \o Lowers

CollationRank(c) ==
    LET lower == ToLowerChar(c)
    IN  IF \E i \in 1..Len(CollationOrder) : CollationOrder[i] = lower
        THEN CHOOSE i \in 1..Len(CollationOrder) : CollationOrder[i] = lower
        ELSE 0

\* the letters and digits of the two texts, whatever their case, put left
\* before right
RECURSIVE PrimaryLess(_, _)
PrimaryLess(left, right) ==
    IF right = <<>> THEN FALSE
    ELSE IF left = <<>> THEN TRUE
    ELSE IF CollationRank(Head(left)) # CollationRank(Head(right))
    THEN CollationRank(Head(left)) < CollationRank(Head(right))
    ELSE PrimaryLess(Tail(left), Tail(right))

\* texts that differ in the case of their letters only: the one with the
\* lower-case letter at the first difference comes first
CaseLess(left, right) ==
    /\ Len(left) = Len(right)
    /\ \A i \in 1..Len(left) : CollationRank(left[i]) = CollationRank(right[i])
    /\ \E i \in 1..Len(left) :
           /\ left[i] # right[i]
           /\ \A j \in 1..(i - 1) : left[j] = right[j]
           /\ left[i] \in Range(Lowers)

\* left.localeCompare(right) < 0
LocaleLess(left, right) == PrimaryLess(left, right) \/ CaseLess(left, right)

(***************************************************************************)
(* The JQL builder: buildJql, buildStrictJql, buildJqlListClause,          *)
(* formatSeverityJqlField, quoteJqlLiteral                                 *)
(***************************************************************************)
QUOTE == "\""
BACKSLASH == "\\"

\* \w of a regular expression
WordChars == Range(Uppers) \cup Range(Lowers) \cup DigitChars \cup {"_"}

\* value.replace(/c/g, by) for one character c
RECURSIVE ReplaceChar(_, _, _)
ReplaceChar(s, c, by) ==
    IF s = <<>> THEN <<>>
    ELSE (IF Head(s) = c THEN by ELSE <<Head(s)>>) \o ReplaceChar(Tail(s), c, by)

\* Array.prototype.join
RECURSIVE Join(_, _)
Join(parts, separator) ==
    IF parts = <<>> THEN <<>>
    ELSE IF Len(parts) = 1 THEN Head(parts)
    ELSE Head(parts) \o separator \o Join(Tail(parts), separator)

\* the value between quotes, nothing escaped
quoteJqlLiteralUnescaped(value) == <<QUOTE>> \o value \o <<QUOTE>>

\* quoteJqlLiteral: backslashes doubled, then quotes escaped, between quotes
quoteJqlLiteral(value) ==
    <<QUOTE>>
        \o ReplaceChar(ReplaceChar(value, BACKSLASH, <<BACKSLASH, BACKSLASH>>),
                       QUOTE, <<BACKSLASH, QUOTE>>)
        \o <<QUOTE>>

\* buildJqlListClause: <<>> stands for null
buildJqlListClause(field, values) ==
    LET normalized == TrimmedNonEmpty(values)
    IN  IF Len(normalized) = 0 THEN <<>>
        ELSE IF Len(normalized) = 1
        THEN field \o <<SP, "=", SP>> \o quoteJqlLiteral(normalized[1])
        ELSE field \o <<SP, "I", "N", SP, "(">>
                 \o Join([i \in 1..Len(normalized) |-> quoteJqlLiteral(normalized[i])],
                         <<",", SP>>)
                 \o <<")">>

IsDigits(s) == s # <<>> /\ \A i \in 1..Len(s) : s[i] \in DigitChars

\* formatSeverityJqlField: customfield_N becomes cf[N]; cf[N] and identifiers
\* stay; anything else goes between quotes
formatSeverityJqlField(configured) ==
    LET raw == Trim(configured)
        prefix == <<"c", "u", "s", "t", "o", "m", "f", "i", "e", "l", "d", "_">>
        isCustomField == /\ Len(raw) > Len(prefix)
                         /\ ToLowerCase(SubSeq(raw, 1, Len(prefix))) = prefix
                         /\ IsDigits(SubSeq(raw, Len(prefix) + 1, Len(raw)))
        isCf == /\ Len(raw) >= 5
                /\ ToLowerCase(SubSeq(raw, 1, 3)) = <<"c", "f", "[">>
                /\ raw[Len(raw)] = "]"
                /\ IsDigits(SubSeq(raw, 4, Len(raw) - 1))
        isIdentifier == /\ raw # <<>>
                        /\ raw[1] \in WordChars \ DigitChars
                        /\ \A i \in 1..Len(raw) : raw[i] \in WordChars
    IN  IF isCustomField
        THEN <<"c", "f", "[">> \o SubSeq(raw, Len(prefix) + 1, Len(raw)) \o <<"]">>
        ELSE IF isCf \/ isIdentifier THEN raw
        ELSE <<QUOTE>> \o ReplaceChar(raw, QUOTE, <<BACKSLASH, QUOTE>>) \o <<QUOTE>>

\* the default of config.severityJqlField when the environment names neither
\* a JQL field nor a field id
DefaultSeverityJqlField == <<"s", "e", "v", "e", "r", "i", "t", "y">>

SeverityJqlField ==
    IF "severityJqlField" \in DOMAIN config THEN config.severityJqlField
    ELSE DefaultSeverityJqlField

\* /\border\s+by\b/i.test(jql)
OrderByTest(jql) ==
    \E i \in 1..Len(jql) : \E k \in 1..Len(jql) :
        /\ i + 6 + k <= Len(jql)
        /\ (i = 1 \/ jql[i - 1] \notin WordChars)
        /\ ToLowerCase(SubSeq(jql, i, i + 4)) = <<"o", "r", "d", "e", "r">>
        /\ \A j \in (i + 5)..(i + 4 + k) : jql[j] \in WhiteSpace
        /\ ToLowerCase(SubSeq(jql, i + 5 + k, i + 6 + k)) = <<"b", "y">>
        /\ (i + 6 + k = Len(jql) \/ jql[i + 7 + k] \notin WordChars)

OrderBySuffix == <<SP, "O", "R", "D", "E", "R", SP, "B", "Y", SP, "u", "p", "d", "a", "t", "e", "d", SP, "D", "E", "S", "C">>

\* a SearchIssuesInput without its paging fields; an absent text is <<>>, an
\* absent list is <<>>
SearchFilter(projectKey, issueKeys, issueTypes, summaryContains, descriptionContains,
             fixVersions, affectedVersions, statuses, priorities, severities, jql) ==
    [projectKey |-> projectKey, issueKeys |-> issueKeys, issueTypes |-> issueTypes,
     summaryContains |-> summaryContains, descriptionContains |-> descriptionContains,
     fixVersions |-> fixVersions, affectedVersions |-> affectedVersions,
     statuses |-> statuses, priorities |-> priorities, severities |-> severities,
     jql |-> jql]

\* clauses.join(" AND ") of buildJql
FilterClauses(input, severityJqlField) ==
    LET Contains(field, text) ==
            IF Trim(text) = <<>> THEN <<>> ELSE field \o <<SP, "~", SP>> \o quoteJqlLiteral(Trim(text))
        clauses ==
            << IF input.projectKey = <<>> THEN <<>>
               ELSE <<"p", "r", "o", "j", "e", "c", "t", SP, "=", SP>> \o quoteJqlLiteral(input.projectKey),
               buildJqlListClause(<<"k", "e", "y">>, input.issueKeys),
               buildJqlListClause(<<"i", "s", "s", "u", "e", "t", "y", "p", "e">>, input.issueTypes),
               Contains(<<"s", "u", "m", "m", "a", "r", "y">>, input.summaryContains),
               Contains(<<"d", "e", "s", "c", "r", "i", "p", "t", "i", "o", "n">>, input.descriptionContains),
               buildJqlListClause(<<"f", "i", "x", "V", "e", "r", "s", "i", "o", "n">>, input.fixVersions),
               buildJqlListClause(<<"a", "f", "f", "e", "c", "t", "e", "d", "V", "e", "r", "s", "i", "o", "n">>, input.affectedVersions),
               buildJqlListClause(<<"s", "t", "a", "t", "u", "s">>, input.statuses),
               buildJqlListClause(<<"p", "r", "i", "o", "r", "i", "t", "y">>, input.priorities),
               buildJqlListClause(formatSeverityJqlField(severityJqlField),
                                  input.severities) >>
    IN  Join(SelectSeq(clauses, LAMBDA clause : clause # <<>>), <<SP, "A", "N", "D", SP>>)

\* the query of buildJql before the ordering is looked at; <<>> when there is
\* neither a filter nor a raw query
CombinedJql(input, severityJqlField) ==
    LET jql == Trim(input.jql)
        filtersJql == FilterClauses(input, severityJqlField)
    IN  IF jql # <<>> /\ filtersJql # <<>>
        THEN <<"(">> \o jql \o <<")", SP, "A", "N", "D", SP, "(">> \o filtersJql \o <<")">>
        ELSE IF jql = <<>> THEN filtersJql
        ELSE jql

buildJql(input, severityJqlField) ==
    LET jql == CombinedJql(input, severityJqlField)
    IN  IF jql = <<>>
        THEN Thrown(PlainError("Provide at least one filter field or a raw jql query."))
        ELSE IF ~OrderByTest(jql) THEN Returned(jql \o OrderBySuffix)
        ELSE Returned(jql)

buildStrictJql(rawJql) ==
    LET jql == Trim(rawJql)
    IN  IF jql = <<>> THEN Thrown(PlainError("jql cannot be empty."))
        ELSE IF ~OrderByTest(jql) THEN Returned(jql \o OrderBySuffix)
        ELSE Returned(jql)

(***************************************************************************)
(* SpecJql: the JQL builder applied to bounded filters and raw queries     *)
(***************************************************************************)
MaxListLen == 2

\* values of a list filter: the two statuses of the README, a blank, a value
\* to trim, a value with a backslash and a quote
ListValues == {<<"O", "p", "e", "n">>, <<"I", "n", SP, "P", "r", "o", "g", "r", "e", "s", "s">>, <<SP>>, <<SP, "a", SP>>, <<"b", "\\", "\"", "c">>}

ListInputs == SeqsUpTo(ListValues, MaxListLen)

FieldInputs == {<<"s", "t", "a", "t", "u", "s">>, <<"k", "e", "y">>}

\* raw queries: none, blank, unordered, ordered in three spellings, words
\* that only resemble the two, and the two words inside a literal
RawJqlInputs ==
    {<<>>, <<SP>>, <<"a", SP, "=", SP, "1">>, <<"a", SP, "=", SP, "1", SP, "o", "r", "d", "e", "r", SP, "b", "y", SP, "b">>, <<"a", SP, "O", "R", "D", "E", "R", LF, SP, "B", "y", SP, "b">>,
     <<"O", "R", "D", "E", "R", SP, "B", "Y", SP, "b">>, <<"b", "o", "r", "d", "e", "r", SP, "b", "y", SP, "b">>, <<"o", "r", "d", "e", "r", SP, "b", "y", "e">>, <<"o", "r", "d", "e", "r", "b", "y", SP, "b">>, <<"t", SP, "~", SP, "\"", "o", "r", "d", "e", "r", SP, "b", "y", "\"">>}

ContainsInputs == {<<>>, <<SP>>, <<"x">>, <<"O", "r", "d", "e", "r", SP, "b", "y">>}

FilterInputs ==
    {SearchFilter(projectKey, <<>>, <<>>, summaryContains, <<>>, <<>>, <<>>,
                  statuses, <<>>, severities, jql) :
        projectKey \in {<<>>, <<"P">>},
        summaryContains \in ContainsInputs,
        statuses \in {<<>>, <<<<"O", "p", "e", "n">>>>, <<<<"O", "p", "e", "n">>, <<"I", "n", SP, "P", "r", "o", "g", "r", "e", "s", "s">>>>},
        severities \in {<<>>, <<<<"S", "1">>>>},
        jql \in RawJqlInputs}

SeverityJqlFieldInputs == {<<"s", "e", "v", "e", "r", "i", "t", "y">>, <<"c", "u", "s", "t", "o", "m", "f", "i", "e", "l", "d", "_", "1", "0">>, <<"B", "u", "g", SP, "S", "e", "v", "e", "r", "i", "t", "y">>}

InitJql ==
    /\ call = NoCall
    /\ pc = "idle"
    /\ locals = NoLocals
    /\ reqs = <<>>
    /\ result = Pending
    /\ upstream = None
    /\ config \in {[severityJqlField |-> field] : field \in SeverityJqlFieldInputs}
    /\ history = NoHistory

\* buildJql on one filter
CompileFilter ==
    /\ pc = "idle"
    /\ \E input \in FilterInputs :
         /\ call' = [op |-> "buildJql", input |-> input]
         /\ result' = buildJql(input, SeverityJqlField)
    /\ pc' = "done"
    /\ UNCHANGED <<locals, reqs, upstream, config, history>>

\* buildStrictJql on one raw query
CompileStrict ==
    /\ pc = "idle"
    /\ \E rawJql \in RawJqlInputs :
         /\ call' = [op |-> "buildStrictJql", rawJql |-> rawJql]
         /\ result' = buildStrictJql(rawJql)
    /\ pc' = "done"
    /\ UNCHANGED <<locals, reqs, upstream, config, history>>

\* buildJqlListClause on one field and one list
CompileList ==
    /\ pc = "idle"
    /\ \E field \in FieldInputs, values \in ListInputs :
         /\ call' = [op |-> "buildJqlListClause", field |-> field, values |-> values]
         /\ result' = Returned(buildJqlListClause(field, values))
    /\ pc' = "done"
    /\ UNCHANGED <<locals, reqs, upstream, config, history>>

AndSeparator == <<SP, "A", "N", "D", SP>>

\* the query of fetchRecentIssueKeysByStatus: its three parts joined
RecentIssueKeysJql(projectKey, issueTypeName) ==
    Join(<<<<"p", "r", "o", "j", "e", "c", "t", SP, "=", SP>> \o quoteJqlLiteral(projectKey),
           <<"i", "s", "s", "u", "e", "t", "y", "p", "e", SP, "=", SP>> \o quoteJqlLiteral(issueTypeName),
           <<"O", "R", "D", "E", "R", SP, "B", "Y", SP, "u", "p", "d", "a", "t", "e", "d", SP, "D", "E", "S", "C">>>>, AndSeparator)

\* the query of countRecentAssignedIssuesByUser: its three parts joined
RecentAssignedJql(projectKey, days) ==
    Join(<<<<"p", "r", "o", "j", "e", "c", "t", SP, "=", SP>> \o quoteJqlLiteral(projectKey),
           <<"u", "p", "d", "a", "t", "e", "d", SP, ">", "=", SP, "-">> \o NatToString(days) \o <<"d">>,
           <<"O", "R", "D", "E", "R", SP, "B", "Y", SP, "u", "p", "d", "a", "t", "e", "d", SP, "D", "E", "S", "C">>>>, AndSeparator)

InternalProjectKeys == {<<"P">>, <<"A", "B">>, <<"A", "1">>, <<"a", "\"", "b">>}
IssueTypeNameInputs == {<<"B", "u", "g">>, <<"S", "t", "o", "r", "y">>, <<"O", "r", "d", "e", "r", SP, "b", "y">>, <<"N", "e", "w", SP, "F", "e", "a", "t", "u", "r", "e">>}
DaysInputs == {1, 7, 60, 365}

\* the query fetchRecentIssueKeysByStatus sends
CompileRecentIssueKeys ==
    /\ pc = "idle"
    /\ \E projectKey \in InternalProjectKeys, issueTypeName \in IssueTypeNameInputs :
         /\ call' = [op |-> "fetchRecentIssueKeysByStatus", projectKey |-> projectKey,
                     issueTypeName |-> issueTypeName]
         /\ result' = Returned(RecentIssueKeysJql(projectKey, issueTypeName))
    /\ pc' = "done"
    /\ UNCHANGED <<locals, reqs, upstream, config, history>>

\* the query countRecentAssignedIssuesByUser sends for every page
CompileRecentAssigned ==
    /\ pc = "idle"
    /\ \E projectKey \in InternalProjectKeys, days \in DaysInputs :
         /\ call' = [op |-> "countRecentAssignedIssuesByUser", projectKey |-> projectKey,
                     days |-> days]
         /\ result' = Returned(RecentAssignedJql(projectKey, days))
    /\ pc' = "done"
    /\ UNCHANGED <<locals, reqs, upstream, config, history>>

JqlReturn ==
    /\ pc = "done"
    /\ call' = NoCall
    /\ pc' = "idle"
    /\ result' = Pending
    /\ UNCHANGED <<locals, reqs, upstream, config, history>>

NextJql ==
    \/ CompileFilter
    \/ CompileStrict
    \/ CompileList
    \/ CompileRecentIssueKeys
    \/ CompileRecentAssigned
    \/ JqlReturn

SpecJql == InitJql /\ [][NextJql]_vars

(***************************************************************************)
(* SpecSearch: searchIssues and searchIssuesByJql against a tracker that   *)
(* holds a result set and serves it in pages                               *)
(***************************************************************************)
MaxIssues == 52

\* the largest page the tracker is willing to serve, whatever is asked for
PageCaps == {2, 50, 100}

EnhancedSearch == "POST /rest/api/3/search/jql"
LegacySearch == "POST /rest/api/3/search"

JQL_RESULTS_TRUNCATED_NOTICE == "Results truncated because results exceeded 50!"

JqlResultCap == 50
JqlMaxResults == 51
DefaultMaxResults == 25

\* input.maxResults when the caller leaves it out
Absent == 0 - 1

\* the issues of the result set after the first pos ones, at most n of them
IssuesFrom(pos, n) == [i \in 1..n |-> pos + i]

PageLength(pos, maxResults) ==
    Max(0, Min(upstream.total - pos, Min(maxResults, upstream.pageCap)))

\* the opaque continuation token of the enhanced endpoint
Cursor(pos) == <<"c">> \o NatToString(pos)

IsCursor(token) ==
    /\ Len(token) >= 2
    /\ Head(token) = "c"
    /\ \A i \in 2..Len(token) : token[i] \in DigitChars

CursorPosition(token) == IF token = <<>> THEN 0 ELSE DigitsValue(Tail(token))

EnhancedPage(req) ==
    LET pos == CursorPosition(req.nextPageToken)
        n == PageLength(pos, req.maxResults)
    IN  [issues |-> IssuesFrom(pos, n),
         nextPageToken |-> IF pos + n < upstream.total THEN Cursor(pos + n) ELSE <<>>]

\* what the enhanced endpoint answers to req
EnhancedOutcomes(req) ==
    IF ~upstream.enhancedAvailable THEN {Fail(JiraApiError(404))}
    ELSE IF req.nextPageToken # <<>> /\ ~IsCursor(req.nextPageToken)
         THEN {Fail(JiraApiError(400))} \cup TransientFailures
         ELSE {Ok(EnhancedPage(req))} \cup TransientFailures

LegacyPage(req) ==
    [issues |-> IssuesFrom(req.startAt, PageLength(req.startAt, req.maxResults)),
     total |-> upstream.total,
     startAt |-> req.startAt]

\* what the legacy endpoint answers to req
LegacyOutcomes(req) == {Ok(LegacyPage(req))} \cup TransientFailures

\* the catch clause of both searches rethrows everything but a 404 API error
FallsBackOnAnyApiError(error) == error.kind = "JiraApiError"

FallsBackToLegacy(error) == error.kind = "JiraApiError" /\ error.status = 404

\* rawIssues.slice(0, 50)
SliceWhole(rawIssues) == rawIssues

SliceToCap(rawIssues) == SubSeq(rawIssues, 1, Min(JqlResultCap, Len(rawIssues)))

TruncatedEnhanced(response) ==
    Len(response.issues) > JqlResultCap \/ response.nextPageToken # <<>>

TruncatedLegacy(response) ==
    response.total > JqlResultCap \/ Len(response.issues) > JqlResultCap

NoticeNever(truncated) == None

NoticeFor(truncated) == IF truncated THEN JQL_RESULTS_TRUNCATED_NOTICE ELSE None

NoError == [kind |-> None, status |-> 0]

\* the locals of a search: the error its catch clause caught and the
\* response it read its result from
SearchLocals(error, response) == [error |-> error, response |-> response]

NoSearchLocals == SearchLocals(NoError, [issues |-> <<>>])

\* tokens a caller passes: none, an offset, a cursor, something that is
\* neither, or the token the previous call returned
TokenInputs == {<<>>, <<"2">>, <<"c", "2">>, <<"-", "1">>, <<"x">>, history.lastToken}

MaxResultsInputs == {Absent, 2}

InitSearch ==
    /\ call = NoCall
    /\ pc = "idle"
    /\ locals = NoSearchLocals
    /\ reqs = <<>>
    /\ result = Pending
    /\ upstream \in [enhancedAvailable : BOOLEAN, total : 0..MaxIssues, pageCap : PageCaps]
    /\ config = NoConfig
    /\ history = NoHistory

\* the enhanced endpoint appears or disappears between two calls
ToggleEnhanced ==
    /\ pc = "idle"
    /\ upstream' = [upstream EXCEPT !.enhancedAvailable = ~@]
    /\ UNCHANGED <<call, pc, locals, reqs, result, config, history>>

\* filters of searchIssues: none, a structured one, a raw query, a blank raw
\* query
NoFilter == SearchFilter(<<>>, <<>>, <<>>, <<>>, <<>>, <<>>, <<>>, <<>>, <<>>, <<>>, <<>>)

SearchFilterInputs ==
    {NoFilter,
     [NoFilter EXCEPT !.projectKey = <<"P">>],
     [NoFilter EXCEPT !.jql = <<"a", SP, "=", SP, "1">>],
     [NoFilter EXCEPT !.jql = <<SP>>]}

\* searchIssues up to its first await: buildJql, then the enhanced request
searchIssues ==
    /\ pc = "idle"
    /\ \E filter \in SearchFilterInputs, token \in TokenInputs,
          maxResults \in MaxResultsInputs :
         LET jql == buildJql(filter, SeverityJqlField)
         IN  /\ call' = [op |-> "searchIssues", filter |-> filter,
                         nextPageToken |-> token, maxResults |-> maxResults]
             /\ IF jql.status = "error"
                THEN /\ result' = jql
                     /\ reqs' = <<>>
                     /\ pc' = "done"
                ELSE /\ reqs' = <<[endpoint |-> EnhancedSearch,
                                   jql |-> jql.value,
                                   maxResults |-> IF maxResults = Absent
                                                  THEN DefaultMaxResults
                                                  ELSE maxResults,
                                   nextPageToken |-> token]>>
                     /\ pc' = "searchIssues:enhanced"
                     /\ result' = Pending
    /\ locals' = NoSearchLocals
    /\ UNCHANGED <<upstream, config, history>>

\* the enhanced request of searchIssues settles: return, rethrow, or fall back
searchIssuesEnhancedSettled ==
    /\ pc = "searchIssues:enhanced"
    /\ \E out \in EnhancedOutcomes(reqs[Len(reqs)]) :
         IF out.ok
         THEN /\ result' = Returned([issues |-> out.body.issues,
                                     nextPageToken |-> out.body.nextPageToken,
                                     mode |-> "enhanced"])
              /\ locals' = SearchLocals(NoError, out.body)
              /\ pc' = "done"
              /\ UNCHANGED reqs
         ELSE IF ~FallsBackToLegacy(out.error)
         THEN /\ result' = Thrown(out.error)
              /\ locals' = SearchLocals(out.error, locals.response)
              /\ pc' = "done"
              /\ UNCHANGED reqs
         ELSE LET startAt == parseNextPageToken(call.nextPageToken)
              IN  /\ locals' = SearchLocals(out.error, locals.response)
                  /\ IF ~startAt.ok
                     THEN /\ result' = Thrown(PlainError("Invalid nextPageToken"))
                          /\ pc' = "done"
                          /\ UNCHANGED reqs
                     ELSE /\ reqs' = Append(reqs,
                                       [endpoint |-> LegacySearch,
                                        jql |-> reqs[1].jql,
                                        maxResults |-> reqs[1].maxResults,
                                        startAt |-> startAt.value])
                          /\ pc' = "searchIssues:legacy"
                          /\ UNCHANGED result
    /\ UNCHANGED <<call, upstream, config, history>>

\* a variant that takes the page ending at the total for one with a successor
LegacyNextPageTokenUpToTotal(nextStart, total) ==
    IF nextStart <= total THEN NatToString(nextStart) ELSE <<>>

\* nextStart < total ? String(nextStart) : null
LegacyNextPageToken(nextStart, total) ==
    IF nextStart < total THEN NatToString(nextStart) ELSE <<>>

\* the legacy request of searchIssues settles
searchIssuesLegacySettled ==
    /\ pc = "searchIssues:legacy"
    /\ \E out \in LegacyOutcomes(reqs[Len(reqs)]) :
         IF out.ok
         THEN LET issues == out.body.issues
                  nextStart == out.body.startAt + Len(issues)
              IN  /\ result' = Returned([issues |-> issues,
                                         nextPageToken |->
                                             LegacyNextPageToken(nextStart,
                                                                 out.body.total),
                                         mode |-> "legacy"])
                  /\ locals' = SearchLocals(locals.error, out.body)
         ELSE /\ result' = Thrown(out.error)
              /\ UNCHANGED locals
    /\ pc' = "done"
    /\ UNCHANGED <<call, reqs, upstream, config, history>>

\* raw queries of searchIssuesByJql: a query and a blank one
StrictJqlInputs == {<<"a", SP, "=", SP, "1">>, <<SP>>}

\* searchIssuesByJql up to its first await: buildStrictJql, then the enhanced
\* request
searchIssuesByJql ==
    /\ pc = "idle"
    /\ \E rawJql \in StrictJqlInputs :
         LET jql == buildStrictJql(rawJql)
         IN  /\ call' = [op |-> "searchIssuesByJql", jql |-> rawJql]
             /\ IF jql.status = "error"
                THEN /\ result' = jql
                     /\ reqs' = <<>>
                     /\ pc' = "done"
                ELSE /\ reqs' = <<[endpoint |-> EnhancedSearch, jql |-> jql.value,
                                   maxResults |-> JqlMaxResults,
                                   nextPageToken |-> <<>>]>>
                     /\ pc' = "searchIssuesByJql:enhanced"
                     /\ result' = Pending
    /\ locals' = NoSearchLocals
    /\ UNCHANGED <<upstream, config, history>>

\* the enhanced request of searchIssuesByJql settles
searchIssuesByJqlEnhancedSettled ==
    /\ pc = "searchIssuesByJql:enhanced"
    /\ \E out \in EnhancedOutcomes(reqs[Len(reqs)]) :
         IF out.ok
         THEN LET truncated == TruncatedEnhanced(out.body)
              IN  /\ result' = Returned([issues |-> SliceToCap(out.body.issues),
                                         truncated |-> truncated,
                                         notice |-> NoticeFor(truncated),
                                         mode |-> "enhanced"])
                  /\ locals' = SearchLocals(NoError, out.body)
                  /\ pc' = "done"
                  /\ UNCHANGED reqs
         ELSE IF ~FallsBackToLegacy(out.error)
         THEN /\ result' = Thrown(out.error)
              /\ locals' = SearchLocals(out.error, locals.response)
              /\ pc' = "done"
              /\ UNCHANGED reqs
         ELSE /\ reqs' = Append(reqs, [endpoint |-> LegacySearch, jql |-> reqs[1].jql,
                                        maxResults |-> JqlMaxResults, startAt |-> 0])
              /\ locals' = SearchLocals(out.error, locals.response)
              /\ pc' = "searchIssuesByJql:legacy"
              /\ UNCHANGED result
    /\ UNCHANGED <<call, upstream, config, history>>

\* the legacy request of searchIssuesByJql settles
searchIssuesByJqlLegacySettled ==
    /\ pc = "searchIssuesByJql:legacy"
    /\ \E out \in LegacyOutcomes(reqs[Len(reqs)]) :
         IF out.ok
         THEN LET truncated == TruncatedLegacy(out.body)
              IN  /\ result' = Returned([issues |-> SliceToCap(out.body.issues),
                                         truncated |-> truncated,
                                         notice |-> NoticeFor(truncated),
                                         mode |-> "legacy"])
                  /\ locals' = SearchLocals(locals.error, out.body)
         ELSE /\ result' = Thrown(out.error)
              /\ UNCHANGED locals
    /\ pc' = "done"
    /\ UNCHANGED <<call, reqs, upstream, config, history>>

\* the call is over; the caller keeps what it returned for its next call
SearchReturn ==
    /\ pc = "done"
    /\ history' = IF result.status = "ok"
                  THEN [lastMode |-> result.value.mode,
                        lastToken |-> IF call.op = "searchIssues"
                                      THEN result.value.nextPageToken
                                      ELSE <<>>]
                  ELSE history
    /\ call' = NoCall
    /\ pc' = "idle"
    /\ locals' = NoSearchLocals
    /\ reqs' = <<>>
    /\ result' = Pending
    /\ UNCHANGED <<upstream, config>>

NextSearch ==
    \/ ToggleEnhanced
    \/ searchIssues
    \/ searchIssuesEnhancedSettled
    \/ searchIssuesLegacySettled
    \/ searchIssuesByJql
    \/ searchIssuesByJqlEnhancedSettled
    \/ searchIssuesByJqlLegacySettled
    \/ SearchReturn

SpecSearch == InitSearch /\ [][NextSearch]_vars

(***************************************************************************)
(* getIssue and the comment loader                                         *)
(***************************************************************************)
MaxComments == 5

GetIssueRequest == "GET /rest/api/3/issue/{key}"
GetCommentsRequest == "GET /rest/api/3/issue/{key}/comment"

LastCommentsCount == 3
AllCommentsPageSize == 100

\* an optional boolean of IssueReadOptions: "true", "false" or left out
Undefined == "undefined"

OptionalBooleans == {"true", "false", Undefined}

\* value ?? fallback for an optional boolean
OrElse(value, fallback) == IF value = Undefined THEN fallback ELSE value = "true"

IssueReadOptions(skipComments, loadOnlyLast3Comments) ==
    [skipComments |-> skipComments, loadOnlyLast3Comments |-> loadOnlyLast3Comments]

\* the branch getIssueComments takes
CommentReadModeLast3First(options) ==
    IF ~OrElse(options.loadOnlyLast3Comments, TRUE) THEN "all"
    ELSE IF OrElse(options.skipComments, FALSE) THEN "skip"
    ELSE "last_3"

CommentReadMode(options) ==
    IF OrElse(options.skipComments, FALSE) THEN "skip"
    ELSE IF OrElse(options.loadOnlyLast3Comments, TRUE) THEN "last_3"
    ELSE "all"

\* the i-th comment of the issue, oldest first, as the tracker stores it
JiraComment(i) == [id |-> i, body |-> plainTextToAdf(<<"a">>)]

toIssueComment(comment) == [id |-> comment.id, body |-> adfToPlainText(comment.body)]

\* the largest page of comments the tracker serves, whatever is asked for;
\* a tracker that states none serves what is asked for
CommentPageCaps == {3, 100}

CommentPageCap ==
    IF "commentPageCap" \in DOMAIN upstream THEN upstream.commentPageCap ELSE 100

\* one page of the comment endpoint
CommentPage(startAt, maxResults) ==
    LET n == Max(0, Min(upstream.comments - startAt, Min(maxResults, CommentPageCap)))
    IN  [comments |-> [i \in 1..n |-> JiraComment(startAt + i)],
         total |-> IF upstream.reportsTotal THEN upstream.comments ELSE Absent]

CommentsRequest(startAt, maxResults) ==
    [endpoint |-> GetCommentsRequest, startAt |-> startAt, maxResults |-> maxResults]

CommentOutcomes(req) ==
    {Ok(CommentPage(req.startAt, req.maxResults))} \cup TransientFailures

IssueOutcomes == {Ok([key |-> "ISSUE"]), Fail(JiraApiError(404))} \cup TransientFailures

\* const startAt = Math.max(0, total - count)
LastStartAtZero(total, count) == 0

LastStartAt(total, count) == Max(0, total - count)

CommentsMeta(mode, total, returned) ==
    [mode |-> mode, total |-> total, returned |-> returned]

NoTransition == [applied |-> FALSE, reason |-> None, available |-> <<>>,
                 requestedStatus |-> <<>>, transitionId |-> <<>>]

\* the locals of getIssue and of the operations that end in it
\* no sprint: what toSprintSummary returns for null
NoSprint == [id |-> 0, name |-> <<>>, state |-> <<>>, board |-> [id |-> 0, name |-> <<>>]]

IssueLocals ==
    [readOptions |-> IssueReadOptions(Undefined, Undefined),
     comments |-> <<>>,
     total |-> Absent,
     startAt |-> 0,
     transition |-> NoTransition,
     fields |-> {},
     projectKey |-> <<>>,
     boards |-> <<>>,
     sprintBase |-> 0,
     sprintAnswers |-> <<>>,
     sprintResponse |-> NoSprint,
     sprint |-> NoSprint]

\* toFocusedIssue, and the return of the operation that called getIssue
IssueResult(comments, meta) ==
    Returned([issue |-> [key |-> "ISSUE", comments |-> comments, commentsMeta |-> meta],
              transition |-> locals.transition,
              sprint |-> locals.sprint])

\* getIssue up to its first await, called with options
BeginGetIssue(options, current) ==
    /\ reqs' = Append(reqs, [endpoint |-> GetIssueRequest])
    /\ locals' = [current EXCEPT !.readOptions = options]
    /\ pc' = "getIssue:issue"

getIssue ==
    /\ pc = "idle"
    /\ \E skipComments \in OptionalBooleans, loadOnlyLast3Comments \in OptionalBooleans :
         /\ call' = [op |-> "getIssue",
                     options |-> IssueReadOptions(skipComments, loadOnlyLast3Comments)]
         /\ BeginGetIssue(IssueReadOptions(skipComments, loadOnlyLast3Comments), locals)
    /\ result' = Pending
    /\ UNCHANGED <<upstream, config, history>>

\* the issue request of getIssue settles; getIssueComments runs to its first
\* await or, in skip mode, to its end
getIssueSettled ==
    /\ pc = "getIssue:issue"
    /\ \E out \in IssueOutcomes :
         IF ~out.ok
         THEN /\ result' = Thrown(out.error)
              /\ pc' = "done"
              /\ UNCHANGED reqs
         ELSE LET mode == CommentReadMode(locals.readOptions)
              IN  IF mode = "skip"
                  THEN /\ result' = IssueResult(<<>>, CommentsMeta("skip", 0, 0))
                       /\ pc' = "done"
                       /\ UNCHANGED reqs
                  ELSE IF mode = "last_3"
                  THEN /\ reqs' = Append(reqs, CommentsRequest(0, 1))
                       /\ pc' = "fetchLastIssueComments:probe"
                       /\ UNCHANGED result
                  ELSE /\ reqs' = Append(reqs, CommentsRequest(0, AllCommentsPageSize))
                       /\ pc' = "fetchAllIssueComments:page"
                       /\ UNCHANGED result
    /\ UNCHANGED <<call, locals, upstream, config, history>>

\* fetchLastIssueComments: the probe of page size 1 settles
fetchLastIssueCommentsProbed ==
    /\ pc = "fetchLastIssueComments:probe"
    /\ \E out \in CommentOutcomes(reqs[Len(reqs)]) :
         IF ~out.ok
         THEN /\ result' = Thrown(out.error)
              /\ pc' = "done"
              /\ UNCHANGED <<reqs, locals>>
         ELSE LET total == IF out.body.total # Absent THEN out.body.total
                           ELSE Len(out.body.comments)
              IN  IF total <= 0
                  THEN /\ result' = IssueResult(<<>>, CommentsMeta("last_3", 0, 0))
                       /\ pc' = "done"
                       /\ UNCHANGED <<reqs, locals>>
                  ELSE /\ locals' = [locals EXCEPT
                                       !.total = total,
                                       !.startAt = LastStartAt(total, LastCommentsCount)]
                       /\ reqs' = Append(reqs,
                                    CommentsRequest(LastStartAt(total, LastCommentsCount),
                                                    LastCommentsCount))
                       /\ pc' = "fetchLastIssueComments:page"
                       /\ UNCHANGED result
    /\ UNCHANGED <<call, upstream, config, history>>

\* fetchLastIssueComments: the page of the last comments settles
fetchLastIssueCommentsLoaded ==
    /\ pc = "fetchLastIssueComments:page"
    /\ \E out \in CommentOutcomes(reqs[Len(reqs)]) :
         IF ~out.ok
         THEN result' = Thrown(out.error)
         ELSE LET comments == [i \in 1..Len(out.body.comments) |->
                                   toIssueComment(out.body.comments[i])]
              IN  result' = IssueResult(comments,
                                CommentsMeta("last_3", locals.total, Len(comments)))
    /\ pc' = "done"
    /\ UNCHANGED <<call, locals, reqs, upstream, config, history>>

\* a variant of the loop that ends after its first page
AllCommentsLoadedAfterOnePage(batchLength, total, startAt) == TRUE

\* the two breaks of the loop of fetchAllIssueComments, startAt already
\* advanced by the batch
AllCommentsLoaded(batchLength, total, startAt) ==
    batchLength = 0 \/ (total # Absent /\ startAt >= total)

\* fetchAllIssueComments: one page settles; the loop ends or asks for the next
fetchAllIssueCommentsPaged ==
    /\ pc = "fetchAllIssueComments:page"
    /\ \E out \in CommentOutcomes(reqs[Len(reqs)]) :
         IF ~out.ok
         THEN /\ result' = Thrown(out.error)
              /\ pc' = "done"
              /\ UNCHANGED <<reqs, locals>>
         ELSE LET total == IF out.body.total # Absent THEN out.body.total
                           ELSE locals.total
                  batch == [i \in 1..Len(out.body.comments) |->
                                toIssueComment(out.body.comments[i])]
                  comments == locals.comments \o batch
                  startAt == locals.startAt + Len(batch)
              IN  /\ locals' = [locals EXCEPT !.total = total,
                                              !.comments = comments,
                                              !.startAt = startAt]
                  /\ IF AllCommentsLoaded(Len(batch), total, startAt)
                     THEN /\ result' = IssueResult(comments,
                                           CommentsMeta("all",
                                               IF total # Absent THEN total
                                               ELSE Len(comments),
                                               Len(comments)))
                          /\ pc' = "done"
                          /\ UNCHANGED reqs
                     ELSE /\ reqs' = Append(reqs,
                                       CommentsRequest(startAt, AllCommentsPageSize))
                          /\ pc' = "fetchAllIssueComments:page"
                          /\ UNCHANGED result
    /\ UNCHANGED <<call, upstream, config, history>>

\* the call is over
IssueReturn ==
    /\ pc = "done"
    /\ call' = NoCall
    /\ pc' = "idle"
    /\ locals' = IssueLocals
    /\ reqs' = <<>>
    /\ result' = Pending
    /\ UNCHANGED <<upstream, config, history>>

(***************************************************************************)
(* SpecComments: getIssue against an issue that has 0..MaxComments         *)
(* comments                                                                *)
(***************************************************************************)
NoTransitions == <<>>

InitComments ==
    /\ call = NoCall
    /\ pc = "idle"
    /\ locals = IssueLocals
    /\ reqs = <<>>
    /\ result = Pending
    /\ upstream \in [comments : 0..MaxComments, reportsTotal : BOOLEAN,
                     commentPageCap : CommentPageCaps,
                     transitions : {NoTransitions}]
    /\ config = NoConfig
    /\ history = NoHistory

NextComments ==
    \/ getIssue
    \/ getIssueSettled
    \/ fetchLastIssueCommentsProbed
    \/ fetchLastIssueCommentsLoaded
    \/ fetchAllIssueCommentsPaged
    \/ IssueReturn

SpecComments == InitComments /\ [][NextComments]_vars

\* every request that is awaited settles, and a caller that has its answer
\* goes on
SpecCommentsFair == SpecComments /\ WF_vars(NextComments)

(***************************************************************************)
(* tryTransitionIssue                                                      *)
(***************************************************************************)
\* the first of the positions that pass a test, as Array.prototype.find takes
\* it; 0 when none passes
FirstIndex(positions) ==
    IF positions = {} THEN 0
    ELSE CHOOSE i \in positions : \A j \in positions : i <= j

GetTransitionsRequest == "GET /rest/api/3/issue/{key}/transitions"
PostTransitionRequest == "POST /rest/api/3/issue/{key}/transitions"

\* a transition as the tracker lists it; an absent id, name or to.name is <<>>
JiraTransition(id, name, to) == [id |-> id, name |-> name, to |-> to]

\* a present field equals the requested value once both are lower-cased; an
\* absent field (undefined) equals nothing
SameIgnoringCase(field, normalizedRequested) ==
    field # <<>> /\ ToLowerCase(field) = normalizedRequested

TransitionMatches(transition, normalizedRequested) ==
    \/ SameIgnoringCase(transition.id, normalizedRequested)
    \/ SameIgnoringCase(transition.name, normalizedRequested)
    \/ SameIgnoringCase(transition.to, normalizedRequested)

\* transitions.find(...); 0 when nothing matches
MatchedTransitionOrFirst(transitions, requestedStatus) ==
    LET found == FirstIndex({i \in 1..Len(transitions) :
                     TransitionMatches(transitions[i], ToLowerCase(requestedStatus))})
    IN  IF found = 0 /\ transitions # <<>> THEN 1 ELSE found

\* a variant that looks for a match by id in the whole list, then by name,
\* then by target status
MatchedTransitionByPriority(transitions, requestedStatus) ==
    LET normalizedRequested == ToLowerCase(requestedStatus)
        byId == FirstIndex({i \in 1..Len(transitions) :
                    SameIgnoringCase(transitions[i].id, normalizedRequested)})
        byName == FirstIndex({i \in 1..Len(transitions) :
                      SameIgnoringCase(transitions[i].name, normalizedRequested)})
        byTarget == FirstIndex({i \in 1..Len(transitions) :
                        SameIgnoringCase(transitions[i].to, normalizedRequested)})
    IN  IF byId # 0 THEN byId ELSE IF byName # 0 THEN byName ELSE byTarget

MatchedTransition(transitions, requestedStatus) ==
    FirstIndex({i \in 1..Len(transitions) :
        TransitionMatches(transitions[i], ToLowerCase(requestedStatus))})

ReasonEmpty == "Requested status is empty."
ReasonNoMatch == "No matching transition found."

\* the target statuses the reason of a failed match lists:
\* transition.to?.name ?? transition.name, where there is one
RECURSIVE AvailableTargets(_)
AvailableTargets(transitions) ==
    IF transitions = <<>> THEN <<>>
    ELSE LET t == Head(transitions)
             label == IF t.to # <<>> THEN t.to ELSE t.name
         IN  (IF label # <<>> THEN <<label>> ELSE <<>>)
                 \o AvailableTargets(Tail(transitions))

NotApplied(requestedStatus, reason, available) ==
    [applied |-> FALSE, reason |-> reason, available |-> available,
     requestedStatus |-> requestedStatus, transitionId |-> <<>>]

Applied(requestedStatus, transitionId) ==
    [applied |-> TRUE, reason |-> None, available |-> <<>>,
     requestedStatus |-> requestedStatus, transitionId |-> transitionId]

\* input.status / input.toStatus: left out (<<>>), a transition id, a name
\* in another case, a target status, a status nothing leads to, blanks
StatusInputs == {<<>>, <<"1">>, <<"a">>, <<"b", SP>>, <<"c">>, <<SP>>}

ReadOptionInputs ==
    {IssueReadOptions(Undefined, Undefined), IssueReadOptions("true", Undefined),
     IssueReadOptions(Undefined, "false")}

\* if (!matched?.id): nothing matched, or what matched has no id
HasNoUsableMatch(transitions, m) == m = 0 \/ transitions[m].id = <<>>

TransitionListOutcomes == {Ok(upstream.transitions), Fail(JiraApiError(404))}
                              \cup TransientFailures

TransitionPostOutcomes == {Ok(None), Fail(JiraApiError(400))} \cup TransientFailures

\* the options the operation in progress passes to its closing getIssue
ClosingReadOptions ==
    IF call.op = "createIssue" THEN IssueReadOptions(Undefined, Undefined)
    ELSE call.options

\* tryTransitionIssue up to its first await; an empty status is answered at
\* once, and the caller goes on to getIssue
BeginTryTransition(status, currentReqs) ==
    IF Trim(status) = <<>>
    THEN /\ reqs' = Append(currentReqs, [endpoint |-> GetIssueRequest])
         /\ locals' = [locals EXCEPT !.readOptions = ClosingReadOptions,
                                     !.transition = NotApplied(status, ReasonEmpty, <<>>)]
         /\ pc' = "getIssue:issue"
    ELSE /\ reqs' = Append(currentReqs, [endpoint |-> GetTransitionsRequest])
         /\ locals' = locals
         /\ pc' = "tryTransitionIssue:list"

\* the transition list arrives: no usable match is reported in the result,
\* a match is posted
tryTransitionIssueListed ==
    /\ pc = "tryTransitionIssue:list"
    /\ \E out \in TransitionListOutcomes :
         IF ~out.ok
         THEN /\ result' = Thrown(out.error)
              /\ pc' = "done"
              /\ UNCHANGED <<reqs, locals>>
         ELSE LET requestedStatus == Trim(call.status)
                  m == MatchedTransition(out.body, requestedStatus)
              IN  /\ result' = result
                  /\ IF HasNoUsableMatch(out.body, m)
                     THEN BeginGetIssue(ClosingReadOptions,
                              [locals EXCEPT !.transition =
                                  NotApplied(requestedStatus, ReasonNoMatch,
                                             AvailableTargets(out.body))])
                     ELSE /\ reqs' = Append(reqs, [endpoint |-> PostTransitionRequest,
                                                   transitionId |-> out.body[m].id])
                          /\ locals' = locals
                          /\ pc' = "tryTransitionIssue:post"
    /\ UNCHANGED <<call, upstream, config, history>>

\* the transition request settles; the caller goes on to getIssue
tryTransitionIssuePosted ==
    /\ pc = "tryTransitionIssue:post"
    /\ \E out \in TransitionPostOutcomes :
         IF ~out.ok
         THEN /\ result' = Thrown(out.error)
              /\ pc' = "done"
              /\ UNCHANGED <<reqs, locals>>
         ELSE /\ result' = result
              /\ BeginGetIssue(ClosingReadOptions,
                     [locals EXCEPT !.transition =
                         Applied(Trim(call.status), reqs[Len(reqs)].transitionId)])
    /\ UNCHANGED <<call, upstream, config, history>>

\* transitionIssue up to its first await
transitionIssue ==
    /\ pc = "idle"
    /\ \E toStatus \in StatusInputs, options \in ReadOptionInputs :
         /\ call' = [op |-> "transitionIssue", status |-> toStatus, options |-> options]
         /\ result' = Pending
         /\ IF Trim(toStatus) = <<>>
            THEN /\ reqs' = <<[endpoint |-> GetIssueRequest]>>
                 /\ locals' = [locals EXCEPT !.readOptions = options,
                                             !.transition =
                                                 NotApplied(toStatus, ReasonEmpty, <<>>)]
                 /\ pc' = "getIssue:issue"
            ELSE /\ reqs' = <<[endpoint |-> GetTransitionsRequest]>>
                 /\ locals' = locals
                 /\ pc' = "tryTransitionIssue:list"
    /\ UNCHANGED <<upstream, config, history>>

(***************************************************************************)
(* createIssue and updateIssue                                             *)
(***************************************************************************)
GetProjectRequest == "GET /rest/api/3/project/{key}"
GetVersionsRequest == "GET /rest/api/3/project/{key}/versions"
GetIssueProjectRequest == "GET /rest/api/3/issue/{key}?fields=project"
PostIssueRequest == "POST /rest/api/3/issue"
PutIssueRequest == "PUT /rest/api/3/issue/{key}"

\* an optional input: left out, or given with a value
Nothing == [given |-> FALSE, value |-> <<>>]
Some(value) == [given |-> TRUE, value |-> value]

\* resolveIssueTypeId on the issue types of the project: the id of the first
\* issue type whose id is the requested text or whose name is it in any case;
\* <<>> when there is none or it has no id
ResolvedIssueTypeId(issueTypes, requested) ==
    LET normalized == ToLowerCase(Trim(requested))
        Test(t) == \/ (t.id # <<>> /\ Trim(t.id) = requested)
                   \/ (t.name # <<>> /\ ToLowerCase(Trim(t.name)) = normalized)
        m == FirstIndex({i \in 1..Len(issueTypes) : Test(issueTypes[i])})
    IN  IF m = 0 THEN <<>> ELSE issueTypes[m].id

\* the names resolveIssueTypeId lists when nothing matches: every issue type
\* name that is not empty, in the project's order
AvailableIssueTypeNames(issueTypes) ==
    SelectSeq([i \in 1..Len(issueTypes) |-> issueTypes[i].name],
              LAMBDA name : name # <<>>)

\* the error of resolveIssueTypeId: "Unknown issue type ... Available: ..."
UnknownIssueType(issueTypes) ==
    [kind |-> "Error", status |-> 0, message |-> "Unknown issue type",
     listed |-> AvailableIssueTypeNames(issueTypes)]

\* the same error naming no value
UnknownVersionsUnlisted(missing) ==
    [kind |-> "Error", status |-> 0, message |-> "Unknown project version(s)",
     listed |-> <<>>]

\* the error of resolveVersionIds: "Unknown project version(s): ..." followed
\* by the requested values that matched nothing
UnknownVersions(missing) ==
    [kind |-> "Error", status |-> 0, message |-> "Unknown project version(s)",
     listed |-> missing]

\* byId.get(value) / byName.get(value): the last version stored under the key
LastIndex(positions) ==
    IF positions = {} THEN 0
    ELSE CHOOSE i \in positions : \A j \in positions : j <= i

\* a variant that takes the first listed version whose id or name is the value
ResolvedVersionIdByListOrder(versions, value) ==
    LET Test(v) == \/ (v.id # <<>> /\ v.id = value)
                   \/ (v.name # <<>> /\ ToLowerCase(v.name) = ToLowerCase(value))
        m == FirstIndex({k \in 1..Len(versions) : Test(versions[k])})
    IN  IF m = 0 THEN <<>> ELSE versions[m].id

\* the id one requested version resolves to, <<>> when it is missing
ResolvedVersionId(versions, value) ==
    LET ById(v) == v.id # <<>> /\ v.id = value
        ByName(v) == v.name # <<>> /\ ToLowerCase(v.name) = ToLowerCase(value)
        i == LastIndex({k \in 1..Len(versions) : ById(versions[k])})
        n == LastIndex({k \in 1..Len(versions) : ByName(versions[k])})
    IN  IF i # 0 THEN versions[i].id
        ELSE IF n # 0 THEN versions[n].id
        ELSE <<>>

\* resolveVersionIds once the versions are there: the ids, each once, in the
\* order requested, and the requested values that match no version
RECURSIVE ResolveVersions(_, _, _)
ResolveVersions(versions, requested, acc) ==
    IF requested = <<>> THEN acc
    ELSE LET id == ResolvedVersionId(versions, Head(requested))
             next == IF id = <<>>
                     THEN [acc EXCEPT !.missing = Append(@, Head(requested))]
                     ELSE IF id \in Range(acc.resolved) THEN acc
                     ELSE [acc EXCEPT !.resolved = Append(@, id)]
         IN  ResolveVersions(versions, Tail(requested), next)

ResolveVersionIds(versions, requested) ==
    ResolveVersions(versions, TrimmedNonEmpty(requested),
                    [resolved |-> <<>>, missing |-> <<>>])

\* Number(text) is finite; the texts of the model are digits or letters
IsNumeric(text) == text # <<>> /\ \A i \in 1..Len(text) : text[i] \in DigitChars

\* buildSeverityPayload: "undefined" when there is nothing to send, "throws"
\* when a non-numeric value meets the number type, else "value"
SeverityPayloadKind(severity) ==
    IF Trim(severity) = <<>> THEN "undefined"
    ELSE IF config.severityValueType = "number" /\ ~IsNumeric(Trim(severity)) THEN "throws"
    ELSE "value"

\* buildSeverityUpdateValue on an optional severity
SeverityUpdateKind(severity) ==
    IF ~severity.given THEN "undefined"
    ELSE IF Trim(severity.value) = <<>> THEN "null"
    ELSE SeverityPayloadKind(severity.value)

ProjectOutcomes == {Ok([issueTypes |-> upstream.issueTypes]), Fail(JiraApiError(404))}
                       \cup TransientFailures

VersionsOutcomes == {Ok(upstream.versions)} \cup TransientFailures

IssueProjectOutcomes == {Ok([projectKey |-> <<"P">>]), Ok([projectKey |-> <<>>]),
                         Fail(JiraApiError(404))} \cup TransientFailures

WriteOutcomes == {Ok(None), Fail(JiraApiError(400))} \cup TransientFailures

Throw(error) ==
    /\ result' = Thrown(error)
    /\ pc' = "done"
    /\ UNCHANGED <<reqs, locals>>

\* createIssue from the severity payload on: the create request
CreateBuildAndPost(c, L) ==
    LET kind == SeverityPayloadKind(c.severity)
    IN  IF kind = "throws" THEN Throw(PlainError("Severity is not numeric"))
        ELSE IF kind = "value" /\ ~config.severityFieldId
        THEN Throw(PlainError("Cannot set severity"))
        ELSE /\ reqs' = Append(reqs, [endpoint |-> PostIssueRequest])
             /\ locals' = L
             /\ pc' = "createIssue:post"
             /\ result' = result

\* createIssue from resolveVersionIds(affectedVersions) on
CreateResolveAffected(c, L) ==
    IF TrimmedNonEmpty(c.affectedVersions) = <<>>
    THEN CreateBuildAndPost(c, L)
    ELSE /\ reqs' = Append(reqs, [endpoint |-> GetVersionsRequest])
         /\ locals' = L
         /\ pc' = "createIssue:affectedVersions"
         /\ result' = result

\* createIssue from resolveVersionIds(fixVersions) on
CreateResolveFix(c, L) ==
    IF TrimmedNonEmpty(c.fixVersions) = <<>>
    THEN CreateResolveAffected(c, L)
    ELSE /\ reqs' = Append(reqs, [endpoint |-> GetVersionsRequest])
         /\ locals' = L
         /\ pc' = "createIssue:fixVersions"
         /\ result' = result

\* inputs of createIssue: an issue type by name in another case and an
\* unknown one; no version, a version by name, an unknown version
IssueTypeInputs == {<<"b">>, <<"x">>}
FixVersionInputs == {<<>>, <<<<"v">>>>}
AffectedVersionInputs == {<<>>, <<<<"x">>>>}
SeverityInputs == {<<>>, <<"s">>}

\* createIssue up to its first await: the project request of resolveIssueTypeId
createIssue ==
    /\ pc = "idle"
    /\ \E issueType \in IssueTypeInputs, fixVersions \in FixVersionInputs,
          affectedVersions \in AffectedVersionInputs, severity \in SeverityInputs,
          status \in StatusInputs :
         call' = [op |-> "createIssue", issueType |-> issueType,
                  fixVersions |-> fixVersions, affectedVersions |-> affectedVersions,
                  severity |-> severity, status |-> status]
    /\ reqs' = <<[endpoint |-> GetProjectRequest]>>
    /\ pc' = "createIssue:issueType"
    /\ result' = Pending
    /\ UNCHANGED <<locals, upstream, config, history>>

\* resolveIssueTypeId: the project arrives
createIssueTypeResolved ==
    /\ pc = "createIssue:issueType"
    /\ \E out \in ProjectOutcomes :
         IF ~out.ok THEN Throw(out.error)
         ELSE IF ResolvedIssueTypeId(out.body.issueTypes, call.issueType) = <<>>
         THEN Throw(UnknownIssueType(out.body.issueTypes))
         ELSE CreateResolveFix(call, locals)
    /\ UNCHANGED <<call, upstream, config, history>>

\* resolveVersionIds(fixVersions): the versions arrive
createIssueFixVersionsResolved ==
    /\ pc = "createIssue:fixVersions"
    /\ \E out \in VersionsOutcomes :
         IF ~out.ok THEN Throw(out.error)
         ELSE IF ResolveVersionIds(out.body, call.fixVersions).missing # <<>>
         THEN Throw(UnknownVersions(ResolveVersionIds(out.body, call.fixVersions).missing))
         ELSE CreateResolveAffected(call, locals)
    /\ UNCHANGED <<call, upstream, config, history>>

\* resolveVersionIds(affectedVersions): the versions arrive
createIssueAffectedVersionsResolved ==
    /\ pc = "createIssue:affectedVersions"
    /\ \E out \in VersionsOutcomes :
         IF ~out.ok THEN Throw(out.error)
         ELSE IF ResolveVersionIds(out.body, call.affectedVersions).missing # <<>>
         THEN Throw(UnknownVersions(ResolveVersionIds(out.body, call.affectedVersions).missing))
         ELSE CreateBuildAndPost(call, locals)
    /\ UNCHANGED <<call, upstream, config, history>>

\* the create request settles: the transition if a status was asked for,
\* then getIssue
createIssuePosted ==
    /\ pc = "createIssue:post"
    /\ \E out \in WriteOutcomes :
         IF ~out.ok THEN Throw(out.error)
         ELSE /\ result' = result
              /\ IF call.status # <<>>
                 THEN BeginTryTransition(call.status, reqs)
                 ELSE BeginGetIssue(ClosingReadOptions, locals)
    /\ UNCHANGED <<call, upstream, config, history>>

\* a variant that looks at the status before it sends the fields
UpdateSendFieldsStatusFirst(c, L) ==
    IF L.fields = {} /\ c.status = <<>>
    THEN Throw(PlainError("No changes requested"))
    ELSE IF Trim(c.status) # <<>>
    THEN /\ reqs' = Append(reqs, [endpoint |-> GetTransitionsRequest])
         /\ locals' = L
         /\ pc' = "tryTransitionIssue:list"
         /\ result' = result
    ELSE /\ reqs' = Append(reqs, [endpoint |-> PutIssueRequest, fields |-> L.fields])
         /\ locals' = L
         /\ pc' = "updateIssue:put"
         /\ result' = result

\* updateIssue from the edit request on: nothing to do is an error, fields
\* are sent before the status is looked at
UpdateSendFields(c, L) ==
    IF L.fields = {} /\ c.status = <<>>
    THEN Throw(PlainError("No changes requested"))
    ELSE IF L.fields # {}
    THEN /\ reqs' = Append(reqs, [endpoint |-> PutIssueRequest, fields |-> L.fields])
         /\ locals' = L
         /\ pc' = "updateIssue:put"
         /\ result' = result
    ELSE /\ result' = result
         /\ IF Trim(c.status) = <<>>
            THEN /\ reqs' = Append(reqs, [endpoint |-> GetIssueRequest])
                 /\ locals' = [L EXCEPT !.readOptions = c.options,
                                        !.transition =
                                            NotApplied(c.status, ReasonEmpty, <<>>)]
                 /\ pc' = "getIssue:issue"
            ELSE /\ reqs' = Append(reqs, [endpoint |-> GetTransitionsRequest])
                 /\ locals' = L
                 /\ pc' = "tryTransitionIssue:list"

\* updateIssue from the severity value on
UpdateBuildSeverity(c, L) ==
    LET kind == SeverityUpdateKind(c.severity)
    IN  IF kind = "throws" THEN Throw(PlainError("Severity is not numeric"))
        ELSE IF kind # "undefined" /\ ~config.severityFieldId
        THEN Throw(PlainError("Cannot update severity"))
        ELSE UpdateSendFields(c,
                 IF kind = "undefined" THEN L
                 ELSE [L EXCEPT !.fields = @ \cup {"severity"}])

\* updateIssue from resolveVersionIds(affectedVersions) on
UpdateResolveAffected(c, L) ==
    IF ~c.affectedVersions.given THEN UpdateBuildSeverity(c, L)
    ELSE IF TrimmedNonEmpty(c.affectedVersions.value) = <<>>
    THEN UpdateBuildSeverity(c, [L EXCEPT !.fields = @ \cup {"versions"}])
    ELSE /\ reqs' = Append(reqs, [endpoint |-> GetVersionsRequest])
         /\ locals' = L
         /\ pc' = "updateIssue:affectedVersions"
         /\ result' = result

\* updateIssue from resolveVersionIds(fixVersions) on
UpdateResolveFix(c, L) ==
    IF ~c.fixVersions.given THEN UpdateResolveAffected(c, L)
    ELSE IF TrimmedNonEmpty(c.fixVersions.value) = <<>>
    THEN UpdateResolveAffected(c, [L EXCEPT !.fields = @ \cup {"fixVersions"}])
    ELSE /\ reqs' = Append(reqs, [endpoint |-> GetVersionsRequest])
         /\ locals' = L
         /\ pc' = "updateIssue:fixVersions"
         /\ result' = result

\* inputs of updateIssue
SummaryInputs == {Nothing, Some(<<"s">>), Some(<<SP>>)}
OptionalFixVersionInputs == {Nothing, Some(<<>>), Some(<<<<"v">>>>)}
OptionalAffectedVersionInputs == {Nothing, Some(<<<<"x">>>>)}
OptionalSeverityInputs == {Nothing, Some(<<"s">>)}

\* updateIssue up to its first await
updateIssue ==
    /\ pc = "idle"
    /\ \E summary \in SummaryInputs, fixVersions \in OptionalFixVersionInputs,
          affectedVersions \in OptionalAffectedVersionInputs,
          severity \in OptionalSeverityInputs, status \in StatusInputs,
          options \in ReadOptionInputs :
         LET c == [op |-> "updateIssue", summary |-> summary,
                   fixVersions |-> fixVersions, affectedVersions |-> affectedVersions,
                   severity |-> severity, status |-> status, options |-> options]
             L == IF summary.given THEN [locals EXCEPT !.fields = {"summary"}]
                  ELSE locals
         IN  /\ call' = c
             /\ IF summary.given /\ Trim(summary.value) = <<>>
                THEN /\ result' = Thrown(PlainError("summary cannot be empty"))
                     /\ pc' = "done"
                     /\ UNCHANGED <<reqs, locals>>
                ELSE IF fixVersions.given \/ affectedVersions.given
                THEN /\ reqs' = <<[endpoint |-> GetIssueProjectRequest]>>
                     /\ locals' = L
                     /\ pc' = "updateIssue:projectKey"
                     /\ result' = Pending
                ELSE /\ UpdateBuildSeverity(c, L)
    /\ UNCHANGED <<upstream, config, history>>

\* getIssueProjectKey: the issue arrives
updateIssueProjectKeyResolved ==
    /\ pc = "updateIssue:projectKey"
    /\ \E out \in IssueProjectOutcomes :
         IF ~out.ok THEN Throw(out.error)
         ELSE IF out.body.projectKey = <<>>
         THEN Throw(PlainError("Cannot resolve project key"))
         ELSE UpdateResolveFix(call, locals)
    /\ UNCHANGED <<call, upstream, config, history>>

\* resolveVersionIds(fixVersions): the versions arrive
updateIssueFixVersionsResolved ==
    /\ pc = "updateIssue:fixVersions"
    /\ \E out \in VersionsOutcomes :
         IF ~out.ok THEN Throw(out.error)
         ELSE IF ResolveVersionIds(out.body, call.fixVersions.value).missing # <<>>
         THEN Throw(UnknownVersions(ResolveVersionIds(out.body, call.fixVersions.value).missing))
         ELSE UpdateResolveAffected(call,
                  [locals EXCEPT !.fields = @ \cup {"fixVersions"}])
    /\ UNCHANGED <<call, upstream, config, history>>

\* resolveVersionIds(affectedVersions): the versions arrive
updateIssueAffectedVersionsResolved ==
    /\ pc = "updateIssue:affectedVersions"
    /\ \E out \in VersionsOutcomes :
         IF ~out.ok THEN Throw(out.error)
         ELSE IF ResolveVersionIds(out.body, call.affectedVersions.value).missing # <<>>
         THEN Throw(UnknownVersions(ResolveVersionIds(out.body, call.affectedVersions.value).missing))
         ELSE UpdateBuildSeverity(call,
                  [locals EXCEPT !.fields = @ \cup {"versions"}])
    /\ UNCHANGED <<call, upstream, config, history>>

\* the edit request settles: the transition if a status was asked for, then
\* getIssue
updateIssuePut ==
    /\ pc = "updateIssue:put"
    /\ \E out \in WriteOutcomes :
         IF ~out.ok THEN Throw(out.error)
         ELSE /\ result' = result
              /\ IF call.status # <<>>
                 THEN BeginTryTransition(call.status, reqs)
                 ELSE BeginGetIssue(ClosingReadOptions, locals)
    /\ UNCHANGED <<call, upstream, config, history>>

(***************************************************************************)
(* SpecWrite: createIssue, updateIssue and transitionIssue against an      *)
(* issue whose workflow offers up to MaxTransitions transitions            *)
(***************************************************************************)
MaxTransitions == 2

\* the transitions the tracker may list; the last one is named like the id of
\* others and leads to a status named like the others
TransitionCatalog ==
    {JiraTransition(id, name, to) :
        id \in {<<>>, <<"1">>}, name \in {<<>>, <<"A">>}, to \in {<<>>, <<"B">>}}
        \cup {JiraTransition(<<"2">>, <<"1">>, <<"A">>)}

\* the project's issue types and versions: in each list the first entry is
\* named like the id of the second
IssueTypeCatalog == <<[id |-> <<"2">>, name |-> <<"1">>], [id |-> <<"1">>, name |-> <<"B">>]>>
VersionsOfProject == <<[id |-> <<"8">>, name |-> <<"7">>], [id |-> <<"7">>, name |-> <<"V">>]>>

InitWrite ==
    /\ call = NoCall
    /\ pc = "idle"
    /\ locals = IssueLocals
    /\ reqs = <<>>
    /\ result = Pending
    /\ upstream \in [comments : {MaxComments}, reportsTotal : {TRUE},
                     transitions : SeqsUpTo(TransitionCatalog, MaxTransitions),
                     issueTypes : {IssueTypeCatalog},
                     versions : {VersionsOfProject}]
    /\ config \in {[severityFieldId |-> FALSE, severityValueType |-> "option"],
                   [severityFieldId |-> TRUE, severityValueType |-> "option"],
                   [severityFieldId |-> TRUE, severityValueType |-> "number"]}
    /\ history = NoHistory

NextWrite ==
    \/ createIssue
    \/ createIssueTypeResolved
    \/ createIssueFixVersionsResolved
    \/ createIssueAffectedVersionsResolved
    \/ createIssuePosted
    \/ updateIssue
    \/ updateIssueProjectKeyResolved
    \/ updateIssueFixVersionsResolved
    \/ updateIssueAffectedVersionsResolved
    \/ updateIssuePut
    \/ transitionIssue
    \/ tryTransitionIssueListed
    \/ tryTransitionIssuePosted
    \/ getIssueSettled
    \/ fetchLastIssueCommentsProbed
    \/ fetchLastIssueCommentsLoaded
    \/ fetchAllIssueCommentsPaged
    \/ IssueReturn

SpecWrite == InitWrite /\ [][NextWrite]_vars

(***************************************************************************)
(* Label matching: normalizeString, normalizeLabelForMatch, labelAliasSet  *)
(***************************************************************************)
\* normalizeString: the trimmed text; <<>> stands for undefined, which is what
\* an absent or blank value becomes
normalizeString(value) == Trim(value)

\* the characters /[^a-z0-9]/g leaves in place
LabelChars == Range(Lowers) \cup DigitChars

RECURSIVE KeepLabelChars(_)
KeepLabelChars(s) ==
    IF s = <<>> THEN <<>>
    ELSE (IF Head(s) \in LabelChars THEN <<Head(s)>> ELSE <<>>)
             \o KeepLabelChars(Tail(s))

\* value.toLowerCase().replace(/[^a-z0-9]/g, ""); "" for an absent value
normalizeLabelForMatch(value) == KeepLabelChars(ToLowerCase(value))

StartsWithIs(normalized) ==
    Len(normalized) >= 2 /\ normalized[1] = "i" /\ normalized[2] = "s"

\* the aliases of a label: its normalised key when that is not empty, and the
\* key without a leading "is" when more than the "is" is left
labelAliasSetWithoutIs(value) ==
    LET normalized == normalizeLabelForMatch(value)
    IN  IF normalized # <<>> THEN {normalized} ELSE {}

labelAliasSet(value) ==
    LET normalized == normalizeLabelForMatch(value)
    IN  (IF normalized # <<>> THEN {normalized} ELSE {})
            \cup (IF StartsWithIs(normalized) /\ Len(normalized) > 2
                  THEN {SubSeq(normalized, 3, Len(normalized))}
                  ELSE {})

intersects(left, right) == \E value \in left : value \in right

(***************************************************************************)
(* getProjectBaseline: the answers of the tracker and the pure conversions *)
(***************************************************************************)
MaxWorkflowTypes == 1
MaxBoards == 1

PrioritySearchRequest == "GET /rest/api/3/priority/search"
PriorityListRequest == "GET /rest/api/3/priority"
AssignableByProjectRequest == "GET /rest/api/3/user/assignable/search?project="
AssignableByProjectKeyRequest == "GET /rest/api/3/user/assignable/search?projectKey="
RecentAssignmentsRequest == "POST /rest/api/3/search fields=assignee expand=changelog"
ProjectStatusesRequest == "GET /rest/api/3/project/{key}/statuses"
CreateMetaRequest == "GET /rest/api/3/issue/createmeta"
RecentStatusesRequest == "POST /rest/api/3/search fields=status"
BoardsRequest == "GET /rest/agile/1.0/board"
BoardSprintsRequest == "GET /rest/agile/1.0/board/{id}/sprint"

\* the sub-lookups getProjectBaseline wraps in a try block, in source order
SubLookups ==
    <<"priorities", "versions", "assignableUsers", "workflowStatuses",
      "fieldProfile", "workflowTransitions", "activeSprints", "severity">>

\* a request as the log keeps it: the sub-lookup that issued it ("project" for
\* the project lookup) and, once it has settled, how it was answered
Issue(log, lookup, endpoint) ==
    Append(log, [endpoint |-> endpoint, lookup |-> lookup,
                 answer |-> "pending", status |-> 0])

Settle(log, i, outcome) ==
    [log EXCEPT ![i].answer = IF outcome.ok THEN "ok" ELSE "failed",
                ![i].status = IF outcome.ok THEN 200 ELSE outcome.error.status]

\* toErrorMessage: the message of the error; the message of a JiraApiError
\* names the status the request failed with
toErrorMessage(error) ==
    IF error.kind = "JiraApiError"
    THEN [message |-> "request failed with status", status |-> error.status]
    ELSE [message |-> error.message, status |-> 0]

NotePrefix ==
    [priorities |-> "Priorities lookup unavailable",
     versions |-> "Versions lookup unavailable",
     assignableUsers |-> "Assignable users lookup unavailable",
     workflowStatuses |-> "Workflow status lookup unavailable",
     fieldProfile |-> "Field profile lookup unavailable",
     workflowTransitions |-> "Workflow transitions lookup unavailable",
     activeSprints |-> "Active sprint lookup unavailable",
     severity |-> "Severity lookup unavailable"]

BoundedScanNote ==
    [text |-> "Assignable users ranking used a bounded scan window for recent issue history; ranking may be partial.",
     cause |-> [message |-> "", status |-> 0]]

\* notes.push(`<prefix>: ${toErrorMessage(error)}`) in a catch block
PushNothing(notes, lookup, error) == notes

PushUnavailable(notes, lookup, error) ==
    Append(notes, [text |-> NotePrefix[lookup], cause |-> toErrorMessage(error)])

\* the entries of a response that carry both an id and a name
RECURSIVE NamedEntries(_)
NamedEntries(values) ==
    IF values = <<>> THEN <<>>
    ELSE (IF Head(values).id # <<>> /\ Head(values).name # <<>>
          THEN <<[id |-> Head(values).id, name |-> Head(values).name]>>
          ELSE <<>>) \o NamedEntries(Tail(values))

\* the project as the tracker answers the project lookup
ProjectAnswer(id, key, name) ==
    [id |-> id, key |-> key, name |-> name,
     issueTypes |-> <<[id |-> <<"1">>, name |-> <<"B">>],
                      [id |-> <<"2">>, name |-> <<>>]>>]

ProjectAnswers ==
    {ProjectAnswer(<<"1", "0">>, <<"P">>, <<"N">>),
     ProjectAnswer(<<>>, <<"P">>, <<"N">>),
     ProjectAnswer(<<"1", "0">>, <<"P">>, <<SP>>)}

\* requireString passes: the value is there and is not blank
HasRequiredString(value) == value # <<>> /\ Trim(value) # <<>>

PriorityCatalog ==
    <<[id |-> <<"1">>, name |-> <<"H">>], [id |-> <<>>, name |-> <<"L">>]>>

VersionCatalog ==
    <<[id |-> <<"7">>, name |-> <<"V">>, released |-> FALSE, archived |-> FALSE],
      [id |-> <<"8">>, name |-> <<"W">>, released |-> TRUE, archived |-> FALSE],
      [id |-> <<"9">>, name |-> <<>>, released |-> FALSE, archived |-> FALSE]>>

\* fetchProjectVersions: the named versions that are neither released nor
\* archived
RECURSIVE OpenVersions(_)
OpenVersions(versions) ==
    IF versions = <<>> THEN <<>>
    ELSE (IF /\ Head(versions).id # <<>> /\ Head(versions).name # <<>>
             /\ ~Head(versions).released /\ ~Head(versions).archived
          THEN <<Head(versions)>>
          ELSE <<>>) \o OpenVersions(Tail(versions))

UserCatalog ==
    <<[accountId |-> <<"u">>, active |-> TRUE, displayName |-> <<"U">>],
      [accountId |-> <<"v">>, active |-> FALSE, displayName |-> <<"V">>],
      [accountId |-> <<"u">>, active |-> TRUE, displayName |-> <<"X">>],
      [accountId |-> <<SP>>, active |-> TRUE, displayName |-> <<>>]>>

NoDisplayName == <<"(", "n", "o", " ", "d", "i", "s", "p", "l", "a", "y", " ",
                   "n", "a", "m", "e", ")">>

\* toActiveAssignableUsers: the active users that have an account id, each
\* account once, the first occurrence winning
RECURSIVE ActiveUsers(_, _)
ActiveUsers(users, deduped) ==
    IF users = <<>> THEN deduped
    ELSE LET user == Head(users)
             id == normalizeString(user.accountId)
             known == \E i \in 1..Len(deduped) : deduped[i].id = id
             name == IF normalizeString(user.displayName) # <<>>
                     THEN normalizeString(user.displayName)
                     ELSE NoDisplayName
         IN  IF ~user.active \/ id = <<>> \/ known
             THEN ActiveUsers(Tail(users), deduped)
             ELSE ActiveUsers(Tail(users), Append(deduped, [id |-> id, name |-> name]))

toActiveAssignableUsers(users) == ActiveUsers(users, <<>>)

\* countRecentAssignedIssuesByUser reads pages of 50 and stops at 500 issues
ScanPageSize == 50
MaxIssuesToScan == 500
AssignableUsersLimit == 15

\* how many recently updated issues the project may hold: none, fewer than the
\* scan window, more than the scan window
RecentIssueCounts == {0, 70, 520}

RecentPageLength(startAt) ==
    IF startAt >= upstream.recentIssues THEN 0
    ELSE Min(ScanPageSize, upstream.recentIssues - startAt)

\* fetchTopAssignableUsersByRecentAssignments once the scan is over. Every
\* recent issue is assigned to the account "u" and has no changelog, so the
\* count of "u" is the number of issues scanned. The catalog holds one active
\* account, which leaves the ranking sort nothing to reorder.
TopAssignableUsers(users, scannedIssues) ==
    LET scored == [i \in 1..Len(users) |->
                      [id |-> users[i].id, name |-> users[i].name,
                       assignedIssuesLast60Days |->
                           IF users[i].id = <<"u">> THEN scannedIssues ELSE 0]]
    IN  SubSeq(scored, 1, Min(Len(scored), Max(1, AssignableUsersLimit)))

\* the answer of /project/{key}/statuses for n issue types, plus an entry
\* without an issue type id
StatusesAnswer(n) ==
    [i \in 1..n |->
        [issueType |-> [id |-> NatToString(i), name |-> <<"T">> \o NatToString(i)],
         statuses |-> <<[id |-> <<"1">>, name |-> <<"O", "p">>],
                        [id |-> <<"2">>, name |-> <<"D", "o">>],
                        [id |-> <<"3">>, name |-> <<"O", "p">>],
                        [id |-> <<>>, name |-> <<"X">>]>>]]
        \o <<[issueType |-> [id |-> <<>>, name |-> <<"Z">>], statuses |-> <<>>]>>

RECURSIVE WorkflowIssueTypeStatuses(_)
WorkflowIssueTypeStatuses(entries) ==
    IF entries = <<>> THEN <<>>
    ELSE (IF Head(entries).issueType.id # <<>> /\ Head(entries).issueType.name # <<>>
          THEN <<[issueType |-> Head(entries).issueType,
                  statuses |-> NamedEntries(Head(entries).statuses)]>>
          ELSE <<>>) \o WorkflowIssueTypeStatuses(Tail(entries))

\* what the search for recent issues of an issue type may answer: issues in
\* the status "oP", which two statuses of the type are named like, an issue
\* in the status "do", or no issue
RecentStatusAnswers ==
    {<<[key |-> <<"S">>, status |-> <<SP>>], [key |-> <<"T">>, status |-> <<"o", "P">>],
       [key |-> <<"V">>, status |-> <<"O", "p">>]>>,
     <<[key |-> <<"U">>, status |-> <<"d", "o">>]>>,
     <<>>}

\* recentIssuesByStatus.get(normalizeLabelForMatch(status.name)): the key of
\* the first issue in that status, <<>> when there is none
SampleIssueKey(issues, statusName) ==
    LET m == FirstIndex({i \in 1..Len(issues) :
                 /\ normalizeString(issues[i].status) # <<>>
                 /\ normalizeLabelForMatch(normalizeString(issues[i].status))
                        = normalizeLabelForMatch(statusName)})
    IN  IF m = 0 THEN <<>> ELSE issues[m].key

\* the first status from position `from` on that has a sample issue; 0 if none
NextSampledStatus(statuses, from, issues) ==
    FirstIndex({i \in from..Len(statuses) : SampleIssueKey(issues, statuses[i].name) # <<>>})

\* the transitions of every sample issue: two that make the same edge, one
\* without a target, one that sorts before the others
TransitionsAnswer ==
    <<JiraTransition(<<"1">>, <<"G">>, <<"D">>), JiraTransition(<<"2">>, <<"G", SP>>, <<"D">>),
      JiraTransition(<<"3">>, <<"H">>, <<>>), JiraTransition(<<"4">>, <<"A">>, <<"C">>)>>

\* the edges the transitions of one sample issue add to transitionMap
RECURSIVE TransitionEdges(_, _, _)
TransitionEdges(statusName, transitions, edges) ==
    IF transitions = <<>> THEN edges
    ELSE LET toStatus == normalizeString(Head(transitions).to)
             transitionName == IF normalizeString(Head(transitions).name) # <<>>
                               THEN normalizeString(Head(transitions).name)
                               ELSE toStatus
             edge == [from |-> statusName, to |-> toStatus, transition |-> transitionName]
             known == \E i \in 1..Len(edges) : edges[i] = edge
         IN  IF toStatus = <<>> \/ transitionName = <<>> \/ known
             THEN TransitionEdges(statusName, Tail(transitions), edges)
             ELSE TransitionEdges(statusName, Tail(transitions), Append(edges, edge))

\* the comparator of the final sort of buildIssueTypeFlows: from, then to,
\* then transition
EdgeBefore(left, right) ==
    IF left.from # right.from THEN LocaleLess(left.from, right.from)
    ELSE IF left.to # right.to THEN LocaleLess(left.to, right.to)
    ELSE LocaleLess(left.transition, right.transition)

RECURSIVE InsertEdge(_, _)
InsertEdge(sorted, edge) ==
    IF sorted = <<>> THEN <<edge>>
    ELSE IF EdgeBefore(edge, Head(sorted)) THEN <<edge>> \o sorted
    ELSE <<Head(sorted)>> \o InsertEdge(Tail(sorted), edge)

\* a variant that leaves the values of the map in the order they were added
SortEdgesAsInserted(edges) == edges

\* [...transitionMap.values()].sort(...)
RECURSIVE SortEdges(_)
SortEdges(edges) ==
    IF edges = <<>> THEN <<>>
    ELSE InsertEdge(SortEdges(SubSeq(edges, 1, Len(edges) - 1)), edges[Len(edges)])

BoardsAnswer(n) ==
    [i \in 1..n |-> [id |-> i, name |-> <<"B">>]] \o <<[id |-> n + 1, name |-> <<>>]>>

RECURSIVE ScrumBoards(_)
ScrumBoards(values) ==
    IF values = <<>> THEN <<>>
    ELSE (IF Head(values).name # <<>> THEN <<Head(values)>> ELSE <<>>)
             \o ScrumBoards(Tail(values))

\* every board answers with the same sprints
SprintsAnswer ==
    <<[id |-> 1, name |-> <<"S">>, state |-> "active"],
      [id |-> 2, name |-> <<>>, state |-> "active"]>>

RECURSIVE SprintSummaries(_, _)
SprintSummaries(sprints, board) ==
    IF sprints = <<>> THEN <<>>
    ELSE (IF Head(sprints).name # <<>> /\ Head(sprints).state # ""
          THEN <<[id |-> Head(sprints).id, name |-> Head(sprints).name,
                  state |-> Head(sprints).state, board |-> board]>>
          ELSE <<>>) \o SprintSummaries(Tail(sprints), board)

\* the sprints of all boards, each sprint id once, the first board winning;
\* one sprint id is left, so the final sort has nothing to reorder
RECURSIVE DedupedSprints(_, _)
DedupedSprints(sprints, deduped) ==
    IF sprints = <<>> THEN deduped
    ELSE IF \E i \in 1..Len(deduped) : deduped[i].id = Head(sprints).id
         THEN DedupedSprints(Tail(sprints), deduped)
         ELSE DedupedSprints(Tail(sprints), Append(deduped, Head(sprints)))

BUSINESS_FIELDS ==
    <<"summary", "description", "fixVersions", "affectedVersions", "priority", "severity">>

SeverityFieldKey == "customfield_1"

\* the create metadata of the project: the fields of its issue types, each a
\* key with an optional required flag and the raw allowed values
MetaFields ==
    {[key |-> "priority", required |-> "true",
      allowedValues |-> <<<<"x">>, <<"x", SP>>, <<SP>>>>],
     [key |-> SeverityFieldKey, required |-> Undefined,
      allowedValues |-> <<<<"S">>, <<"s">>, <<"M">>>>]}

CreateMetaAnswer ==
    [projects |-> <<[key |-> <<"q">>, issuetypes |-> <<>>],
                    [key |-> <<"p">>,
                     issuetypes |-> <<[id |-> <<SP>>, fields |-> {}],
                                      [id |-> <<"1", SP>>, fields |-> MetaFields]>>]>>]

RECURSIVE IssueTypeFields(_)
IssueTypeFields(issuetypes) ==
    IF issuetypes = <<>> THEN <<>>
    ELSE (IF normalizeString(Head(issuetypes).id) # <<>>
          THEN <<[id |-> normalizeString(Head(issuetypes).id),
                  fields |-> Head(issuetypes).fields]>>
          ELSE <<>>) \o IssueTypeFields(Tail(issuetypes))

\* fetchCreateMetaFieldMap on the answer: the issue types of the project whose
\* key matches, as id and fields, in the order of the answer
fetchCreateMetaFieldMap(response, projectKey) ==
    LET m == FirstIndex({i \in 1..Len(response.projects) :
                 normalizeLabelForMatch(response.projects[i].key)
                     = normalizeLabelForMatch(projectKey)})
    IN  IF m = 0 THEN <<>> ELSE IssueTypeFields(response.projects[m].issuetypes)

\* metaByIssueType.get(id): the fields stored last under the id, {} for none
FieldsMeta(metaByIssueType, id) ==
    LET k == LastIndex({i \in 1..Len(metaByIssueType) : metaByIssueType[i].id = id})
    IN  IF k = 0 THEN {} ELSE metaByIssueType[k].fields

\* extractAllowedValues on text values: trimmed, blank ones dropped, each once
RECURSIVE DistinctValues(_, _)
DistinctValues(values, deduped) ==
    IF values = <<>> THEN deduped
    ELSE LET scalar == Trim(Head(values))
         IN  IF scalar = <<>> \/ scalar \in Range(deduped)
             THEN DistinctValues(Tail(values), deduped)
             ELSE DistinctValues(Tail(values), Append(deduped, scalar))

extractAllowedValues(values) == DistinctValues(values, <<>>)

Names(entries) == [i \in 1..Len(entries) |-> entries[i].name]

defaultAllowedValues(field, priorities, versions) ==
    IF field = "priority" THEN Names(priorities)
    ELSE IF field \in {"fixVersions", "affectedVersions"} THEN Names(versions)
    ELSE <<>>

\* getJiraFieldKeyForBusinessField; "" stands for undefined
getJiraFieldKeyForBusinessField(field) ==
    IF field = "severity" THEN (IF config.severityFieldId THEN SeverityFieldKey ELSE "")
    ELSE IF field = "affectedVersions" THEN "versions"
    ELSE field

DefaultField(field, priorities, versions) ==
    [field |-> field,
     required |-> field = "summary",
     supported |-> (field # "severity" \/ config.severityFieldId),
     allowedValues |-> defaultAllowedValues(field, priorities, versions)]

ProfiledField(field, fieldsMeta, priorities, versions) ==
    LET jiraFieldKey == getJiraFieldKeyForBusinessField(field)
        hasMeta == \E f \in fieldsMeta : f.key = jiraFieldKey
        metaField == CHOOSE f \in fieldsMeta : f.key = jiraFieldKey
        default == DefaultField(field, priorities, versions)
        allowedFromMeta == IF hasMeta THEN extractAllowedValues(metaField.allowedValues)
                           ELSE <<>>
    IN  [field |-> field,
         required |-> IF hasMeta /\ metaField.required # Undefined
                      THEN metaField.required = "true"
                      ELSE default.required,
         supported |-> (hasMeta \/ default.supported),
         allowedValues |-> IF allowedFromMeta # <<>> THEN allowedFromMeta
                           ELSE default.allowedValues]

\* buildFieldProfile once the create metadata is there
buildFieldProfile(metaByIssueType, issueTypes, priorities, versions) ==
    [i \in 1..Len(issueTypes) |->
        [issueType |-> issueTypes[i],
         fields |-> [j \in 1..Len(BUSINESS_FIELDS) |->
                        ProfiledField(BUSINESS_FIELDS[j],
                                      FieldsMeta(metaByIssueType, issueTypes[i].id),
                                      priorities, versions)]]]

\* the profile the catch block of the field profile lookup builds
FallbackFieldProfile(issueTypes, priorities, versions) ==
    [i \in 1..Len(issueTypes) |->
        [issueType |-> issueTypes[i],
         fields |-> [j \in 1..Len(BUSINESS_FIELDS) |->
                        DefaultField(BUSINESS_FIELDS[j], priorities, versions)]]]

defaultSeverityContext ==
    [configured |-> config.severityFieldId,
     valueType |-> config.severityValueType,
     options |-> <<>>]

\* the severity options of all issue types: allowed values that are text get
\* no id, so an option is kept once per lower-cased value
RECURSIVE SeverityOptions(_, _)
SeverityOptions(values, deduped) ==
    IF values = <<>> THEN deduped
    ELSE LET scalar == Trim(Head(values))
             known == \E i \in 1..Len(deduped) :
                          ToLowerCase(deduped[i]) = ToLowerCase(scalar)
         IN  IF scalar = <<>> \/ known
             THEN SeverityOptions(Tail(values), deduped)
             ELSE SeverityOptions(Tail(values), Append(deduped, scalar))

RECURSIVE SeverityValues(_)
SeverityValues(metaByIssueType) ==
    IF metaByIssueType = <<>> THEN <<>>
    ELSE LET fields == Head(metaByIssueType).fields
             values == IF \E f \in fields : f.key = SeverityFieldKey
                       THEN (CHOOSE f \in fields : f.key = SeverityFieldKey).allowedValues
                       ELSE <<>>
         IN  values \o SeverityValues(Tail(metaByIssueType))

\* buildSeverityContext once the create metadata is there
buildSeverityContext(metaByIssueType) ==
    [defaultSeverityContext EXCEPT
        !.options = SeverityOptions(SeverityValues(metaByIssueType), <<>>)]

(***************************************************************************)
(* getProjectBaseline: the call, one action per awaited request            *)
(***************************************************************************)
\* the variables of getProjectBaseline and of the helpers it awaits;
\* `attempted` lists the try blocks control has entered
BaselineLocals ==
    [project |-> ProjectAnswer(<<>>, <<>>, <<>>), issueTypes |-> <<>>,
     notes |-> <<>>, attempted |-> <<>>,
     priorities |-> <<>>, versions |-> <<>>, assignableUsers |-> <<>>,
     workflowIssueTypeStatuses |-> <<>>, fieldProfile |-> <<>>,
     issueTypeFlows |-> <<>>, activeSprints |-> <<>>,
     severity |-> [configured |-> FALSE, valueType |-> "option", options |-> <<>>],
     users |-> <<>>, startAt |-> 0, scannedIssues |-> 0,
     flows |-> <<>>, flowIndex |-> 0, statusIndex |-> 0, recentIssues |-> <<>>,
     edges |-> <<>>, statusesWithSample |-> 0, statusesWithTransitions |-> 0,
     boards |-> <<>>, sprintAnswers |-> <<>>, sprintBase |-> 0]

\* the object getProjectBaseline returns
Baseline(L) ==
    [project |-> [id |-> L.project.id, key |-> L.project.key, name |-> L.project.name],
     issueTypes |-> L.issueTypes,
     priorities |-> L.priorities,
     versions |-> L.versions,
     assignableUsers |-> L.assignableUsers,
     activeSprints |-> L.activeSprints,
     severity |-> L.severity,
     fieldProfile |-> L.fieldProfile,
     workflow |-> [issueTypeFlows |-> L.issueTypeFlows],
     notes |-> L.notes]

\* the next request of a sub-lookup goes out and the call awaits its answer
Await(L, log, lookup, endpoint, at) ==
    /\ locals' = L
    /\ reqs' = Issue(log, lookup, endpoint)
    /\ pc' = at
    /\ result' = result

Enter(L, lookup) == [L EXCEPT !.attempted = Append(@, lookup)]

BaselineReturns(L, log) ==
    /\ locals' = L
    /\ reqs' = log
    /\ pc' = "done"
    /\ result' = Returned(Baseline(L))

BaselineThrows(L, log, error) ==
    /\ locals' = L
    /\ reqs' = log
    /\ pc' = "done"
    /\ result' = Thrown(error)

\* let severity = this.defaultSeverityContext(); try { buildSeverityContext }
BeginSeverity(L, log) ==
    LET A == [Enter(L, "severity") EXCEPT !.severity = defaultSeverityContext]
    IN  IF ~config.severityFieldId THEN BaselineReturns(A, log)
        ELSE Await(A, log, "severity", CreateMetaRequest, "buildSeverityContext")

BeginActiveSprints(L, log) ==
    Await(Enter(L, "activeSprints"), log, "activeSprints", BoardsRequest,
          "fetchScrumBoards")

\* buildIssueTypeFlows: the loop over the issue types, entered at the type
\* after L.flowIndex
FlowsNextType(L, log) ==
    IF L.flowIndex >= Len(L.workflowIssueTypeStatuses)
    THEN BeginActiveSprints([L EXCEPT !.issueTypeFlows = L.flows], log)
    ELSE Await([L EXCEPT !.flowIndex = @ + 1, !.statusIndex = 0,
                         !.recentIssues = <<>>, !.edges = <<>>,
                         !.statusesWithSample = 0, !.statusesWithTransitions = 0],
               log, "workflowTransitions", RecentStatusesRequest,
               "fetchRecentIssueKeysByStatus")

\* the loop over the statuses of the current type, entered at the status after
\* L.statusIndex: statuses without a sample issue are skipped; when none is
\* left the flow of the type is pushed
FlowsNextStatus(L, log) ==
    LET entry == L.workflowIssueTypeStatuses[L.flowIndex]
        k == NextSampledStatus(entry.statuses, L.statusIndex + 1, L.recentIssues)
        flow == [issueType |-> entry.issueType,
                 statuses |-> entry.statuses,
                 transitions |-> SortEdges(L.edges),
                 coverage |-> [statusesTotal |-> Len(entry.statuses),
                               statusesWithSample |-> L.statusesWithSample,
                               statusesWithTransitions |-> L.statusesWithTransitions]]
    IN  IF k # 0
        THEN Await([L EXCEPT !.statusIndex = k, !.statusesWithSample = @ + 1],
                   log, "workflowTransitions", GetTransitionsRequest,
                   "listIssueTransitions")
        ELSE FlowsNextType([L EXCEPT !.flows = Append(@, flow)], log)

BeginIssueTypeFlows(L, log) ==
    FlowsNextType([Enter(L, "workflowTransitions") EXCEPT !.flows = <<>>,
                                                          !.flowIndex = 0], log)

BeginFieldProfile(L, log) ==
    Await(Enter(L, "fieldProfile"), log, "fieldProfile", CreateMetaRequest,
          "buildFieldProfile")

BeginWorkflowStatuses(L, log) ==
    Await(Enter(L, "workflowStatuses"), log, "workflowStatuses",
          ProjectStatusesRequest, "workflowStatuses")

\* the scan of the recent issues is over: the users are ranked and a scan
\* that stopped at its window leaves a note
AssignableUsersRanked(L, log, truncated) ==
    BeginWorkflowStatuses(
        [L EXCEPT !.assignableUsers = TopAssignableUsers(L.users, L.scannedIssues),
                  !.notes = IF truncated THEN Append(@, BoundedScanNote) ELSE @],
        log)

\* fetchAllProjectAssignableUsers has its page: the catalog is shorter than a
\* page of 200, so the first page is the last. Without an active user the
\* ranking is skipped.
AssignableUsersPaged(L, log, page) ==
    LET users == toActiveAssignableUsers(page)
    IN  IF users = <<>>
        THEN BeginWorkflowStatuses([L EXCEPT !.assignableUsers = <<>>], log)
        ELSE Await([L EXCEPT !.users = users, !.startAt = 0, !.scannedIssues = 0],
                   log, "assignableUsers", RecentAssignmentsRequest,
                   "countRecentAssignedIssuesByUser")

BeginAssignableUsers(L, log) ==
    Await(Enter(L, "assignableUsers"), log, "assignableUsers",
          AssignableByProjectRequest, "fetchProjectAssignableUsersPage")

BeginVersions(L, log) ==
    Await(Enter(L, "versions"), log, "versions", GetVersionsRequest,
          "fetchProjectVersions")

BeginPriorities(L, log) ==
    Await(Enter(L, "priorities"), log, "priorities", PrioritySearchRequest,
          "fetchPriorities")

\* a catch block of getProjectBaseline: the note is pushed, the section keeps
\* the value it was declared with
Caught(L, lookup, error) ==
    [L EXCEPT !.notes = PushUnavailable(@, lookup, error)]

BaselineProjectOutcomes ==
    {Ok(p) : p \in ProjectAnswers} \cup {Fail(JiraApiError(404)), Fail(TimeoutError)}

getProjectBaseline ==
    /\ pc = "idle"
    /\ call' = [op |-> "getProjectBaseline", projectKey |-> <<"P">>]
    /\ Await(BaselineLocals, <<>>, "project", GetProjectRequest, "getProjectBaseline")
    /\ UNCHANGED <<upstream, config, history>>

\* the project is there: its id, key and name are required, then the first
\* sub-lookup starts
getProjectBaselineProject ==
    /\ pc = "getProjectBaseline"
    /\ \E outcome \in BaselineProjectOutcomes :
          LET log == Settle(reqs, Len(reqs), outcome)
              project == outcome.body
              L == [locals EXCEPT !.project = project]
          IN  IF ~outcome.ok THEN BaselineThrows(locals, log, outcome.error)
              ELSE IF ~HasRequiredString(project.id)
              THEN BaselineThrows(L, log, PlainError("Missing project id in Jira response."))
              ELSE IF ~HasRequiredString(project.key)
              THEN BaselineThrows(L, log, PlainError("Missing project key in Jira response."))
              ELSE IF ~HasRequiredString(project.name)
              THEN BaselineThrows(L, log, PlainError("Missing project name in Jira response."))
              ELSE BeginPriorities(
                       [L EXCEPT !.issueTypes = NamedEntries(project.issueTypes)], log)
    /\ UNCHANGED <<call, upstream, config, history>>

\* fetchPriorities, the project's priorities: taken when there are any,
\* otherwise (none, or the request failed) the global list is asked for
fetchPrioritiesSearched ==
    /\ pc = "fetchPriorities"
    /\ \E outcome \in {Ok(PriorityCatalog), Ok(<<>>), Fail(JiraApiError(500))} :
          LET log == Settle(reqs, Len(reqs), outcome)
          IN  IF outcome.ok /\ NamedEntries(outcome.body) # <<>>
              THEN BeginVersions([locals EXCEPT !.priorities = NamedEntries(outcome.body)],
                                 log)
              ELSE Await(locals, log, "priorities", PriorityListRequest,
                         "fetchPriorities:fallback")
    /\ UNCHANGED <<call, upstream, config, history>>

fetchPrioritiesFallback ==
    /\ pc = "fetchPriorities:fallback"
    /\ \E outcome \in {Ok(PriorityCatalog), Fail(TimeoutError)} :
          LET log == Settle(reqs, Len(reqs), outcome)
          IN  IF outcome.ok
              THEN BeginVersions([locals EXCEPT !.priorities = NamedEntries(outcome.body)],
                                 log)
              ELSE BeginVersions(Caught(locals, "priorities", outcome.error), log)
    /\ UNCHANGED <<call, upstream, config, history>>

fetchProjectVersions ==
    /\ pc = "fetchProjectVersions"
    /\ \E outcome \in {Ok(VersionCatalog), Fail(JiraApiError(500))} :
          LET log == Settle(reqs, Len(reqs), outcome)
          IN  IF outcome.ok
              THEN BeginAssignableUsers(
                       [locals EXCEPT !.versions = OpenVersions(outcome.body)], log)
              ELSE BeginAssignableUsers(Caught(locals, "versions", outcome.error), log)
    /\ UNCHANGED <<call, upstream, config, history>>

\* fetchProjectAssignableUsersPage: a 400 is answered with a second request
\* that names the project by projectKey; any other failure is thrown
\* a variant that asks again whatever the failure
RetriesByProjectKeyOnAnyError(error) == TRUE

\* if (!(error instanceof JiraApiError) || error.status !== 400) throw error;
RetriesByProjectKey(error) == error.kind = "JiraApiError" /\ error.status = 400

fetchProjectAssignableUsersPage ==
    /\ pc = "fetchProjectAssignableUsersPage"
    /\ \E outcome \in {Ok(UserCatalog), Ok(<<>>), Fail(JiraApiError(400)),
                       Fail(TimeoutError)} :
          LET log == Settle(reqs, Len(reqs), outcome)
          IN  IF outcome.ok THEN AssignableUsersPaged(locals, log, outcome.body)
              ELSE IF RetriesByProjectKey(outcome.error)
              THEN Await(locals, log, "assignableUsers", AssignableByProjectKeyRequest,
                         "fetchProjectAssignableUsersPage:fallback")
              ELSE BeginWorkflowStatuses(
                       Caught(locals, "assignableUsers", outcome.error), log)
    /\ UNCHANGED <<call, upstream, config, history>>

fetchProjectAssignableUsersPageFallback ==
    /\ pc = "fetchProjectAssignableUsersPage:fallback"
    /\ \E outcome \in {Ok(UserCatalog), Fail(JiraApiError(400))} :
          LET log == Settle(reqs, Len(reqs), outcome)
          IN  IF outcome.ok THEN AssignableUsersPaged(locals, log, outcome.body)
              ELSE BeginWorkflowStatuses(
                       Caught(locals, "assignableUsers", outcome.error), log)
    /\ UNCHANGED <<call, upstream, config, history>>

\* countRecentAssignedIssuesByUser: one page of the scan has been answered
countRecentAssignedIssuesByUser ==
    /\ pc = "countRecentAssignedIssuesByUser"
    /\ \E outcome \in {Ok(RecentPageLength(locals.startAt)), Fail(JiraApiError(500))} :
          LET log == Settle(reqs, Len(reqs), outcome)
              L == [locals EXCEPT !.startAt = @ + outcome.body,
                                  !.scannedIssues = @ + outcome.body]
          IN  IF ~outcome.ok
              THEN BeginWorkflowStatuses(
                       Caught(locals, "assignableUsers", outcome.error), log)
              ELSE IF outcome.body = 0 THEN AssignableUsersRanked(locals, log, FALSE)
              ELSE IF L.startAt >= upstream.recentIssues
              THEN AssignableUsersRanked(L, log, FALSE)
              ELSE IF L.scannedIssues >= MaxIssuesToScan
              THEN AssignableUsersRanked(L, log, TRUE)
              ELSE Await(L, log, "assignableUsers", RecentAssignmentsRequest,
                         "countRecentAssignedIssuesByUser")
    /\ UNCHANGED <<call, upstream, config, history>>

workflowStatuses ==
    /\ pc = "workflowStatuses"
    /\ \E outcome \in {Ok(StatusesAnswer(upstream.workflowTypes)), Fail(TimeoutError)} :
          LET log == Settle(reqs, Len(reqs), outcome)
          IN  IF outcome.ok
              THEN BeginFieldProfile(
                       [locals EXCEPT !.workflowIssueTypeStatuses =
                                          WorkflowIssueTypeStatuses(outcome.body)], log)
              ELSE BeginFieldProfile(Caught(locals, "workflowStatuses", outcome.error),
                                     log)
    /\ UNCHANGED <<call, upstream, config, history>>

\* buildFieldProfile; a failure leaves the profile of defaults
buildFieldProfileSettled ==
    /\ pc = "buildFieldProfile"
    /\ \E outcome \in {Ok(CreateMetaAnswer), Fail(JiraApiError(403))} :
          LET log == Settle(reqs, Len(reqs), outcome)
              L == locals
          IN  IF outcome.ok
              THEN BeginIssueTypeFlows(
                       [L EXCEPT !.fieldProfile =
                            buildFieldProfile(
                                fetchCreateMetaFieldMap(outcome.body, call.projectKey),
                                L.issueTypes, L.priorities, L.versions)], log)
              ELSE BeginIssueTypeFlows(
                       [Caught(L, "fieldProfile", outcome.error) EXCEPT
                            !.fieldProfile = FallbackFieldProfile(L.issueTypes,
                                                 L.priorities, L.versions)], log)
    /\ UNCHANGED <<call, upstream, config, history>>

\* fetchRecentIssueKeysByStatus for the current issue type; its failure leaves
\* buildIssueTypeFlows, and with it the flows already built
fetchRecentIssueKeysByStatus ==
    /\ pc = "fetchRecentIssueKeysByStatus"
    /\ \E outcome \in {Ok(a) : a \in RecentStatusAnswers} \cup {Fail(JiraApiError(500))} :
          LET log == Settle(reqs, Len(reqs), outcome)
          IN  IF outcome.ok
              THEN FlowsNextStatus([locals EXCEPT !.recentIssues = outcome.body], log)
              ELSE BeginActiveSprints(
                       Caught(locals, "workflowTransitions", outcome.error), log)
    /\ UNCHANGED <<call, upstream, config, history>>

\* statusesWithTransitions += transitionsAddedForStatus: a variant that counts
\* the edges a status added rather than the status
StatusesWithTransitionsPerEdge(count, transitionsAddedForStatus) ==
    count + transitionsAddedForStatus

\* if (transitionsAddedForStatus > 0) { statusesWithTransitions += 1; }
StatusesWithTransitions(count, transitionsAddedForStatus) ==
    IF transitionsAddedForStatus > 0 THEN count + 1 ELSE count

\* a variant without the try around listIssueTransitions: the failure leaves
\* buildIssueTypeFlows
RethrowTransitionsFailure(L, log, error) ==
    BeginActiveSprints(Caught(L, "workflowTransitions", error), log)

\* catch { continue; }
SwallowTransitionsFailure(L, log, error) == FlowsNextStatus(L, log)

\* listIssueTransitions of a sample issue; its failure is swallowed and the
\* loop goes on to the next status
listIssueTransitionsSettled ==
    /\ pc = "listIssueTransitions"
    /\ \E outcome \in {Ok(TransitionsAnswer), Fail(TimeoutError)} :
          LET log == Settle(reqs, Len(reqs), outcome)
              L == locals
              status == L.workflowIssueTypeStatuses[L.flowIndex].statuses[L.statusIndex]
              edges == TransitionEdges(status.name, outcome.body, L.edges)
          IN  IF outcome.ok
              THEN FlowsNextStatus(
                       [L EXCEPT !.edges = edges,
                                 !.statusesWithTransitions =
                                     StatusesWithTransitions(
                                         @, Len(edges) - Len(L.edges))],
                       log)
              ELSE SwallowTransitionsFailure(L, log, outcome.error)
    /\ UNCHANGED <<call, upstream, config, history>>

\* fetchScrumBoards; with boards, fetchSprintsFromBoards asks every board for
\* its sprints at once
fetchScrumBoards ==
    /\ pc = "fetchScrumBoards"
    /\ \E outcome \in {Ok(BoardsAnswer(upstream.boards)), Fail(JiraApiError(500))} :
          LET log == Settle(reqs, Len(reqs), outcome)
              boards == ScrumBoards(outcome.body)
          IN  IF ~outcome.ok
              THEN BeginSeverity(Caught(locals, "activeSprints", outcome.error), log)
              ELSE IF boards = <<>>
              THEN BeginSeverity([locals EXCEPT !.activeSprints = <<>>], log)
              ELSE /\ locals' = [locals EXCEPT
                                    !.boards = boards,
                                    !.sprintBase = Len(log),
                                    !.sprintAnswers =
                                        [i \in 1..Len(boards) |->
                                            [settled |-> FALSE, sprints |-> <<>>]]]
                   /\ reqs' = log \o [i \in 1..Len(boards) |->
                                         [endpoint |-> BoardSprintsRequest,
                                          lookup |-> "activeSprints",
                                          answer |-> "pending", status |-> 0]]
                   /\ pc' = "fetchSprintsFromBoards"
                   /\ result' = result
    /\ UNCHANGED <<call, upstream, config, history>>

\* one of the boards answers; a board that fails counts as a board without
\* sprints. With the last answer the sprints are merged in board order.
fetchSprintsFromBoards ==
    /\ pc = "fetchSprintsFromBoards"
    /\ \E i \in 1..Len(locals.boards),
          outcome \in {Ok(SprintsAnswer), Fail(TimeoutError)} :
          /\ ~locals.sprintAnswers[i].settled
          /\ LET log == Settle(reqs, locals.sprintBase + i, outcome)
                 sprints == IF outcome.ok
                            THEN SprintSummaries(outcome.body, locals.boards[i])
                            ELSE <<>>
                 answers == [locals.sprintAnswers EXCEPT
                                ![i] = [settled |-> TRUE, sprints |-> sprints]]
                 L == [locals EXCEPT !.sprintAnswers = answers]
                 collections == [b \in 1..Len(answers) |-> answers[b].sprints]
             IN  IF \A b \in 1..Len(answers) : answers[b].settled
                 THEN BeginSeverity(
                          [L EXCEPT !.activeSprints =
                                        DedupedSprints(Concat(collections), <<>>)], log)
                 ELSE /\ locals' = L
                      /\ reqs' = log
                      /\ UNCHANGED <<pc, result>>
    /\ UNCHANGED <<call, upstream, config, history>>

buildSeverityContextSettled ==
    /\ pc = "buildSeverityContext"
    /\ \E outcome \in {Ok(CreateMetaAnswer), Fail(TimeoutError)} :
          LET log == Settle(reqs, Len(reqs), outcome)
          IN  IF outcome.ok
              THEN BaselineReturns(
                       [locals EXCEPT !.severity =
                            buildSeverityContext(
                                fetchCreateMetaFieldMap(outcome.body, call.projectKey))],
                       log)
              ELSE BaselineReturns(Caught(locals, "severity", outcome.error), log)
    /\ UNCHANGED <<call, upstream, config, history>>

BaselineReturn ==
    /\ pc = "done"
    /\ call' = NoCall
    /\ pc' = "idle"
    /\ locals' = BaselineLocals
    /\ reqs' = <<>>
    /\ result' = Pending
    /\ UNCHANGED <<upstream, config, history>>

\* a project with one issue type more, no recent issue and no board
ManyTypesProject ==
    [recentIssues |-> 0, workflowTypes |-> MaxWorkflowTypes + 1, boards |-> 0]

InitBaseline ==
    /\ call = NoCall
    /\ pc = "idle"
    /\ locals = BaselineLocals
    /\ reqs = <<>>
    /\ result = Pending
    /\ upstream \in [recentIssues : RecentIssueCounts,
                     workflowTypes : 0..MaxWorkflowTypes,
                     boards : 0..MaxBoards]
                        \cup {ManyTypesProject}
    /\ config \in {[severityFieldId |-> FALSE, severityValueType |-> "option"],
                   [severityFieldId |-> TRUE, severityValueType |-> "option"]}
    /\ history = NoHistory

NextBaseline ==
    \/ getProjectBaseline
    \/ getProjectBaselineProject
    \/ fetchPrioritiesSearched
    \/ fetchPrioritiesFallback
    \/ fetchProjectVersions
    \/ fetchProjectAssignableUsersPage
    \/ fetchProjectAssignableUsersPageFallback
    \/ countRecentAssignedIssuesByUser
    \/ workflowStatuses
    \/ buildFieldProfileSettled
    \/ fetchRecentIssueKeysByStatus
    \/ listIssueTransitionsSettled
    \/ fetchScrumBoards
    \/ fetchSprintsFromBoards
    \/ buildSeverityContextSettled
    \/ BaselineReturn

SpecBaseline == InitBaseline /\ [][NextBaseline]_vars

(***************************************************************************)
(* linkIssue and resolveIssueLinkPayload                                   *)
(***************************************************************************)
MaxLinkTypes == 2

\* the preview of the available relations holds at most 40 labels
PreviewCap == 40

GetLinkTypesRequest == "GET /rest/api/3/issueLinkType"
PostIssueLinkRequest == "POST /rest/api/3/issueLink"

IsBlockedByLabel == <<"i", "s", SP, "b", "l", "o", "c", "k", "e", "d", SP, "b", "y">>
BlocksLabel == <<"b", "l", "o", "c", "k", "s">>
BlockedByDashed == <<"B", "l", "o", "c", "k", "e", "d", "-", "B", "y">>
IsBlockedByCaps == <<"I", "S", "_", "B", "L", "O", "C", "K", "E", "D", "_", "B", "Y">>
BlockedByLabel == <<"b", "l", "o", "c", "k", "e", "d", SP, "b", "y">>
RelatesToLabel == <<"r", "e", "l", "a", "t", "e", "s", SP, "t", "o">>

JiraIssueLinkType(name, outward, inward) ==
    [name |-> name, outward |-> outward, inward |-> inward]

\* the link types a tracker may answer with; an absent label is <<>>
LinkTypeCatalog ==
    {JiraIssueLinkType(<<"B", "l", "o", "c", "k", "s">>, BlocksLabel, IsBlockedByLabel),
     JiraIssueLinkType(<<"D", "e", "p">>, BlockedByDashed, BlocksLabel),
     JiraIssueLinkType(<<"G", "a", "t", "e">>, IsBlockedByCaps, <<>>),
     JiraIssueLinkType(<<SP>>, IsBlockedByLabel, BlocksLabel),
     JiraIssueLinkType(<<"I", "s">>, <<"-", "-">>, <<>>),
     JiraIssueLinkType(<<"R", "e", "l", "a", "t", "e", "s">>, RelatesToLabel, RelatesToLabel)}

\* a tracker with more distinct labels than the preview holds: 14 link types
\* of three labels each
LongLinkTypeCatalog ==
    [i \in 1..14 |->
        JiraIssueLinkType(<<"n">> \o NatToString(i), <<"o">> \o NatToString(i),
                          <<"w">> \o NatToString(i))]

NoLink ==
    [found |-> FALSE, relation |-> <<>>, linkType |-> <<>>, direction |-> "",
     outwardIssueKey |-> <<>>, inwardIssueKey |-> <<>>]

Link(relation, linkType, direction, outwardIssueKey, inwardIssueKey) ==
    [found |-> TRUE, relation |-> relation, linkType |-> linkType,
     direction |-> direction, outwardIssueKey |-> outwardIssueKey,
     inwardIssueKey |-> inwardIssueKey]

\* a variant of the body of the loop that tests the inward label first
LinkOfTypeInwardFirst(issueKey, targetIssueKey, requestedAliases, linkType) ==
    LET name == normalizeString(linkType.name)
        outward == normalizeString(linkType.outward)
        inward == normalizeString(linkType.inward)
    IN  IF name = <<>> THEN NoLink
        ELSE IF inward # <<>> /\ intersects(requestedAliases, labelAliasSet(inward))
        THEN Link(inward, name, "inward", targetIssueKey, issueKey)
        ELSE IF outward # <<>> /\ intersects(requestedAliases, labelAliasSet(outward))
        THEN Link(outward, name, "outward", issueKey, targetIssueKey)
        ELSE IF intersects(requestedAliases, labelAliasSet(name))
        THEN Link(IF outward # <<>> THEN outward ELSE name, name, "outward",
                  issueKey, targetIssueKey)
        ELSE NoLink

\* the body of the loop of resolveIssueLinkPayload: a link type without a name
\* is passed over; otherwise the outward label is tested, then the inward
\* label, then the name; NoLink when the loop goes on
LinkOfType(issueKey, targetIssueKey, requestedAliases, linkType) ==
    LET name == normalizeString(linkType.name)
        outward == normalizeString(linkType.outward)
        inward == normalizeString(linkType.inward)
    IN  IF name = <<>> THEN NoLink
        ELSE IF outward # <<>> /\ intersects(requestedAliases, labelAliasSet(outward))
        THEN Link(outward, name, "outward", issueKey, targetIssueKey)
        ELSE IF inward # <<>> /\ intersects(requestedAliases, labelAliasSet(inward))
        THEN Link(inward, name, "inward", targetIssueKey, issueKey)
        ELSE IF intersects(requestedAliases, labelAliasSet(name))
        THEN Link(IF outward # <<>> THEN outward ELSE name, name, "outward",
                  issueKey, targetIssueKey)
        ELSE NoLink

\* the loop over the link types in the order of the answer: the first link
\* type that matches is returned, NoLink when the loop ends without one
RECURSIVE MatchLinkType(_, _, _, _)
MatchLinkType(issueKey, targetIssueKey, requestedAliases, linkTypes) ==
    IF linkTypes = <<>> THEN NoLink
    ELSE LET link == LinkOfType(issueKey, targetIssueKey, requestedAliases,
                                Head(linkTypes))
         IN  IF link.found THEN link
             ELSE MatchLinkType(issueKey, targetIssueKey, requestedAliases,
                                Tail(linkTypes))

\* linkTypes.flatMap(outward, inward, name).map(normalizeString).filter(Boolean)
RECURSIVE availableRelations(_)
availableRelations(linkTypes) ==
    IF linkTypes = <<>> THEN <<>>
    ELSE SelectSeq(<<normalizeString(Head(linkTypes).outward),
                     normalizeString(Head(linkTypes).inward),
                     normalizeString(Head(linkTypes).name)>>,
                   LAMBDA value : value # <<>>)
             \o availableRelations(Tail(linkTypes))

\* [...new Set(values)]: each value once, in the order of first appearance
RECURSIVE DistinctInOrder(_, _)
DistinctInOrder(values, seen) ==
    IF values = <<>> THEN seen
    ELSE IF Head(values) \in Range(seen) THEN DistinctInOrder(Tail(values), seen)
    ELSE DistinctInOrder(Tail(values), Append(seen, Head(values)))

\* .slice(0, 40)
SliceNothing(values) == values

SlicePreview(values) == SubSeq(values, 1, Min(Len(values), PreviewCap))

\* .join(", ")
RECURSIVE JoinLabels(_)
JoinLabels(values) ==
    IF values = <<>> THEN <<>>
    ELSE IF Len(values) = 1 THEN Head(values)
    ELSE Head(values) \o <<",", SP>> \o JoinLabels(Tail(values))

NonePreview == <<"(", "n", "o", "n", "e", ")">>

\* the error of a relation no link type matches
UnknownLinkRelation(relation, linkTypes) ==
    LET preview == JoinLabels(SlicePreview(DistinctInOrder(availableRelations(linkTypes),
                                                          <<>>)))
    IN  [kind |-> "Error", status |-> 0,
         message |-> "Unknown link relation. Available relations:",
         relation |-> relation,
         preview |-> IF preview # <<>> THEN preview ELSE NonePreview]

resolveIssueLinkPayload(issueKey, targetIssueKey, relation, linkTypes) ==
    MatchLinkType(issueKey, targetIssueKey, labelAliasSet(relation), linkTypes)

LinkLocals == [issueKey |-> <<>>, targetIssueKey |-> <<>>, relation |-> <<>>,
               resolved |-> NoLink]

\* LinkIssueInput as callers give it
RelationInputs ==
    {IsBlockedByLabel, BlockedByLabel, <<"R", "e", "l", "a", "t", "e", "s">>,
     RelatesToLabel, <<"?", "?">>, <<"x">>, <<SP>>}

IssueKeyInputs == {<<"A", SP>>, <<SP>>}

CommentInputs == {<<>>, <<"c", SP>>}

LinkTypeOutcomes ==
    {Ok([issueLinkTypes |-> upstream.linkTypes]), Fail(JiraApiError(403)),
     Fail(TimeoutError)}

LinkPostOutcomes == {Ok(None), Fail(JiraApiError(404)), Fail(TimeoutError)}

\* the body of the POST: the link type by name, the two issues, and the
\* comment as a document when there is one
IssueLinkBody(resolved, comment) ==
    [type |-> resolved.linkType,
     inwardIssue |-> resolved.inwardIssueKey,
     outwardIssue |-> resolved.outwardIssueKey,
     comment |-> IF Trim(comment) # <<>> THEN plainTextToAdf(Trim(comment))
                 ELSE NullDocument]

\* linkIssue: the three texts are trimmed and required, then the link types
\* are asked for
linkIssue ==
    /\ pc = "idle"
    /\ \E issueKey \in IssueKeyInputs, relation \in RelationInputs,
          comment \in CommentInputs :
          LET L == [LinkLocals EXCEPT !.issueKey = Trim(issueKey),
                                      !.targetIssueKey = Trim(<<"B">>),
                                      !.relation = Trim(relation)]
          IN  /\ call' = [op |-> "linkIssue", issueKey |-> issueKey,
                          targetIssueKey |-> <<"B">>, relation |-> relation,
                          comment |-> comment]
              /\ IF L.issueKey = <<>> \/ L.targetIssueKey = <<>> \/ L.relation = <<>>
                 THEN /\ locals' = L
                      /\ reqs' = <<>>
                      /\ pc' = "done"
                      /\ result' = Thrown(PlainError(
                             "issueKey, targetIssueKey and relation are required."))
                 ELSE Await(L, <<>>, "linkIssue", GetLinkTypesRequest, "fetchIssueLinkTypes")
    /\ UNCHANGED <<upstream, config, history>>

\* the link types are there: the relation is resolved, which either throws or
\* leads to the POST of the link
linkIssueTypesFetched ==
    /\ pc = "fetchIssueLinkTypes"
    /\ \E outcome \in LinkTypeOutcomes :
          LET log == Settle(reqs, Len(reqs), outcome)
              linkTypes == outcome.body.issueLinkTypes
              resolved == resolveIssueLinkPayload(locals.issueKey, locals.targetIssueKey,
                                                  locals.relation, linkTypes)
          IN  IF ~outcome.ok
              THEN /\ reqs' = log
                   /\ pc' = "done"
                   /\ result' = Thrown(outcome.error)
                   /\ locals' = locals
              ELSE IF ~resolved.found
              THEN /\ reqs' = log
                   /\ pc' = "done"
                   /\ result' = Thrown(UnknownLinkRelation(locals.relation, linkTypes))
                   /\ locals' = locals
              ELSE /\ reqs' = Append(log, [endpoint |-> PostIssueLinkRequest,
                                           lookup |-> "linkIssue",
                                           answer |-> "pending", status |-> 0,
                                           body |-> IssueLinkBody(resolved, call.comment)])
                   /\ pc' = "postIssueLink"
                   /\ result' = result
                   /\ locals' = [locals EXCEPT !.resolved = resolved]
    /\ UNCHANGED <<call, upstream, config, history>>

linkIssuePosted ==
    /\ pc = "postIssueLink"
    /\ \E outcome \in LinkPostOutcomes :
          /\ reqs' = Settle(reqs, Len(reqs), outcome)
          /\ pc' = "done"
          /\ result' = IF outcome.ok
                       THEN Returned([issueKey |-> locals.issueKey,
                                      targetIssueKey |-> locals.targetIssueKey,
                                      relation |-> locals.resolved.relation,
                                      linkType |-> locals.resolved.linkType,
                                      direction |-> locals.resolved.direction])
                       ELSE Thrown(outcome.error)
    /\ UNCHANGED <<call, locals, upstream, config, history>>

LinkReturn ==
    /\ pc = "done"
    /\ call' = NoCall
    /\ pc' = "idle"
    /\ locals' = LinkLocals
    /\ reqs' = <<>>
    /\ result' = Pending
    /\ UNCHANGED <<upstream, config, history>>

InitLink ==
    /\ call = NoCall
    /\ pc = "idle"
    /\ locals = LinkLocals
    /\ reqs = <<>>
    /\ result = Pending
    /\ upstream \in [linkTypes : SeqsUpTo(LinkTypeCatalog, MaxLinkTypes)
                                     \cup {LongLinkTypeCatalog}]
    /\ config = NoConfig
    /\ history = NoHistory

NextLink ==
    \/ linkIssue
    \/ linkIssueTypesFetched
    \/ linkIssuePosted
    \/ LinkReturn

SpecLink == InitLink /\ [][NextLink]_vars

(***************************************************************************)
(* assignIssueToSprint, resolveSprintForAssignment, listSprints,           *)
(* fetchSprintById; addComment                                             *)
(***************************************************************************)
GetSprintRequest == "GET /rest/agile/1.0/sprint/{id}"
GetBoardRequest == "GET /rest/agile/1.0/board/{id}"
PostSprintIssueRequest == "POST /rest/agile/1.0/sprint/{id}/issue"
PostCommentRequest == "POST /rest/api/3/issue/{key}/comment"

\* the sprints the tracker holds, as JiraSprintResponse: two whose names
\* differ in case and punctuation only, a closed one, one without a board,
\* one without a name; originBoardId 0 stands for none
SprintCatalog ==
    <<[id |-> 1, name |-> <<"S", SP, "1">>, state |-> <<"a", "c", "t", "i", "v", "e">>, originBoardId |-> 1],
      [id |-> 2, name |-> <<"s", "-", "1">>, state |-> <<"f", "u", "t", "u", "r", "e">>, originBoardId |-> 1],
      [id |-> 3, name |-> <<"O", "l", "d">>, state |-> <<SP, "C", "l", "o", "s", "e", "d">>, originBoardId |-> 1],
      [id |-> 4, name |-> <<"N", "e", "w">>, state |-> <<"a", "c", "t", "i", "v", "e">>, originBoardId |-> 0],
      [id |-> 5, name |-> <<>>, state |-> <<"a", "c", "t", "i", "v", "e">>, originBoardId |-> 1]>>

\* toSprintSummary: NoSprint stands for null; the goal, the dates and the
\* description made of them are left out
toSprintSummary(sprint, board) ==
    IF sprint.name = <<>> \/ sprint.state = <<>> THEN NoSprint
    ELSE [id |-> sprint.id, name |-> sprint.name, state |-> sprint.state,
          board |-> board]

sprintStateRank(state) ==
    LET normalized == ToLowerCase(Trim(state))
    IN  IF normalized = <<"a", "c", "t", "i", "v", "e">> THEN 0
        ELSE IF normalized = <<"f", "u", "t", "u", "r", "e">> THEN 1
        ELSE IF normalized = <<"c", "l", "o", "s", "e", "d">> THEN 2
        ELSE 3

\* the comparator of the final sort of fetchSprintsFromBoards
SprintBefore(left, right) ==
    IF sprintStateRank(left.state) # sprintStateRank(right.state)
    THEN sprintStateRank(left.state) < sprintStateRank(right.state)
    ELSE LocaleLess(left.name, right.name)

\* Array.prototype.sort with that comparator: stable
RECURSIVE InsertSprint(_, _)
InsertSprint(sorted, sprint) ==
    IF sorted = <<>> THEN <<sprint>>
    ELSE IF SprintBefore(sprint, Head(sorted)) THEN <<sprint>> \o sorted
    ELSE <<Head(sorted)>> \o InsertSprint(Tail(sorted), sprint)

RECURSIVE SortSprints(_)
SortSprints(sprints) ==
    IF sprints = <<>> THEN <<>>
    ELSE InsertSprint(SortSprints(SubSeq(sprints, 1, Len(sprints) - 1)),
                      sprints[Len(sprints)])

\* the boards fetchScrumBoards keeps: named, and named as requested
NamedBoards(values, boardName) ==
    LET requested == normalizeLabelForMatch(boardName)
    IN  SelectSeq(values,
                  LAMBDA board : /\ board.name # <<>>
                                 /\ (requested = <<>>
                                        \/ normalizeLabelForMatch(board.name) = requested))

\* the sprints of one board's answer that toSprintSummary accepts
SummariesOf(sprints, board) ==
    SelectSeq([i \in 1..Len(sprints) |-> toSprintSummary(sprints[i], board)],
              LAMBDA summary : summary # NoSprint)

\* the sprints whose name matches the requested one
MatchingSprints(sprints, sprintName) ==
    SelectSeq(sprints,
              LAMBDA sprint : normalizeLabelForMatch(sprint.name)
                                  = normalizeLabelForMatch(sprintName))

\* the first match whatever the number of matches
PickFirstMatch(matches) ==
    IF Len(matches) = 0 THEN Thrown(PlainError("Sprint not found"))
    ELSE Returned(matches[1])

\* resolveSprintForAssignment once the sprints are listed
PickSprint(matches) ==
    IF Len(matches) = 0 THEN Thrown(PlainError("Sprint not found"))
    ELSE IF Len(matches) > 1 THEN Thrown(PlainError("Sprint name is ambiguous"))
    ELSE Returned(matches[1])

\* a closed sprint is assigned to like any other
AssignWhateverState(sprint, L) ==
    /\ reqs' = Append(reqs, [endpoint |-> PostSprintIssueRequest, sprint |-> sprint.id])
    /\ locals' = [L EXCEPT !.sprint = sprint]
    /\ pc' = "assignIssueToSprint:post"
    /\ result' = result

\* assignIssueToSprint from the resolved sprint on
AssignResolved(sprint, L) ==
    IF ToLowerCase(Trim(sprint.state)) = <<"c", "l", "o", "s", "e", "d">>
    THEN /\ result' = Thrown(PlainError("Cannot assign issue to closed sprint"))
         /\ locals' = [L EXCEPT !.sprint = sprint]
         /\ pc' = "done"
         /\ UNCHANGED reqs
    ELSE /\ reqs' = Append(reqs, [endpoint |-> PostSprintIssueRequest, sprint |-> sprint.id])
         /\ locals' = [L EXCEPT !.sprint = sprint]
         /\ pc' = "assignIssueToSprint:post"
         /\ result' = result

\* listSprints from fetchScrumBoards on
ListSprints(projectKey, L) ==
    IF Trim(projectKey) = <<>> THEN Throw(PlainError("projectKey cannot be empty."))
    ELSE /\ reqs' = Append(reqs, [endpoint |-> BoardsRequest])
         /\ locals' = [L EXCEPT !.projectKey = Trim(projectKey)]
         /\ pc' = "listSprints:boards"
         /\ result' = result

IssueKeyTexts == {<<"K">>, <<SP>>}
\* sprintId: absent, not positive, of a closed sprint, of an open one, of
\* one without a name, of none
NoSprintId == [given |-> FALSE, value |-> 0]
SprintIdInputs == {NoSprintId, Some(0), Some(3), Some(4), Some(5), Some(9)}
SprintNameInputs == {<<>>, <<SP>>, <<"S", "1">>, <<"o", "l", "d">>, <<"n", "e", "w">>, <<"z", "z">>}
ProjectKeyInputs == {<<>>, <<"P">>}
BoardNameInputs == {<<>>, <<"b">>, <<"z", "z">>}
LoadIssueInputs == {Undefined, "false"}

\* assignIssueToSprint up to its first await
assignIssueToSprint ==
    /\ pc = "idle"
    /\ \E issueKey \in IssueKeyTexts, sprintId \in SprintIdInputs,
          sprintName \in SprintNameInputs, projectKey \in ProjectKeyInputs,
          boardName \in BoardNameInputs, loadIssueAfterAssign \in LoadIssueInputs :
         LET hasSprintId == sprintId.given
             hasSprintName == Trim(sprintName) # <<>>
         IN  /\ call' = [op |-> "assignIssueToSprint", issueKey |-> issueKey,
                         sprintId |-> sprintId, sprintName |-> sprintName,
                         projectKey |-> projectKey, boardName |-> boardName,
                         loadIssueAfterAssign |-> loadIssueAfterAssign,
                         options |-> IssueReadOptions(Undefined, Undefined)]
             /\ IF Trim(issueKey) = <<>>
                THEN Throw(PlainError("issueKey cannot be empty."))
                ELSE IF hasSprintId /\ hasSprintName
                THEN Throw(PlainError("Provide either sprintId or sprintName, not both."))
                ELSE IF ~hasSprintId /\ ~hasSprintName
                THEN Throw(PlainError("Provide sprintId or sprintName."))
                ELSE IF hasSprintId
                THEN IF sprintId.value <= 0
                     THEN Throw(PlainError("sprintId must be a positive integer."))
                     ELSE /\ reqs' = Append(reqs, [endpoint |-> GetSprintRequest])
                          /\ pc' = "fetchSprintById:sprint"
                          /\ UNCHANGED <<locals, result>>
                ELSE IF Trim(projectKey) # <<>>
                THEN ListSprints(Trim(projectKey), locals)
                ELSE /\ reqs' = Append(reqs, [endpoint |-> GetIssueProjectRequest])
                     /\ pc' = "assignIssueToSprint:projectKey"
                     /\ UNCHANGED <<locals, result>>
    /\ UNCHANGED <<upstream, config, history>>

\* getIssueProjectKey: the issue arrives
assignIssueToSprintProjectKeyResolved ==
    /\ pc = "assignIssueToSprint:projectKey"
    /\ \E out \in IssueProjectOutcomes :
         IF ~out.ok THEN Throw(out.error)
         ELSE IF out.body.projectKey = <<>>
         THEN Throw(PlainError("Cannot resolve project key"))
         ELSE ListSprints(out.body.projectKey, locals)
    /\ UNCHANGED <<call, upstream, config, history>>

\* fetchScrumBoards of listSprints: the boards arrive; without a board the
\* list of sprints is empty, otherwise every board is asked at once
listSprintsBoardsFetched ==
    /\ pc = "listSprints:boards"
    /\ \E out \in {Ok(BoardsAnswer(upstream.boards)), Fail(JiraApiError(500))} :
         IF ~out.ok THEN Throw(out.error)
         ELSE LET boards == NamedBoards(out.body, Trim(call.boardName))
              IN  IF boards = <<>>
                  THEN /\ result' = PickSprint(<<>>)
                       /\ pc' = "done"
                       /\ UNCHANGED <<reqs, locals>>
                  ELSE /\ locals' = [locals EXCEPT
                                        !.boards = boards,
                                        !.sprintBase = Len(reqs),
                                        !.sprintAnswers =
                                            [i \in 1..Len(boards) |->
                                                [settled |-> FALSE, sprints |-> <<>>]]]
                       /\ reqs' = reqs \o [i \in 1..Len(boards) |->
                                              [endpoint |-> BoardSprintsRequest]]
                       /\ pc' = "listSprints:sprints"
                       /\ result' = result
    /\ UNCHANGED <<call, upstream, config, history>>

\* fetchSprintsFromBoards of listSprints: one of the boards answers, a board
\* that fails counting as one without sprints; with the last answer the
\* sprints are merged, sorted and matched against the requested name
listSprintsSprintsFetched ==
    /\ pc = "listSprints:sprints"
    /\ \E i \in 1..Len(locals.boards), out \in {Ok(SprintCatalog), Fail(TimeoutError)} :
         /\ ~locals.sprintAnswers[i].settled
         /\ LET sprints == IF out.ok THEN SummariesOf(out.body, locals.boards[i])
                           ELSE <<>>
                answers == [locals.sprintAnswers EXCEPT
                               ![i] = [settled |-> TRUE, sprints |-> sprints]]
                L == [locals EXCEPT !.sprintAnswers = answers]
                collections == [b \in 1..Len(answers) |-> answers[b].sprints]
                listed == SortSprints(DedupedSprints(Concat(collections), <<>>))
                picked == PickSprint(MatchingSprints(listed, Trim(call.sprintName)))
            IN  IF \E b \in 1..Len(answers) : ~answers[b].settled
                THEN /\ locals' = L
                     /\ UNCHANGED <<reqs, pc, result>>
                ELSE IF picked.status = "error"
                THEN /\ result' = picked
                     /\ locals' = L
                     /\ pc' = "done"
                     /\ UNCHANGED reqs
                ELSE AssignResolved(picked.value, L)
    /\ UNCHANGED <<call, upstream, config, history>>

\* what the tracker answers when asked for one sprint
SprintByIdOutcomes(sprintId) ==
    (IF \E i \in 1..Len(SprintCatalog) : SprintCatalog[i].id = sprintId
     THEN {Ok(SprintCatalog[CHOOSE i \in 1..Len(SprintCatalog) :
                                SprintCatalog[i].id = sprintId])}
     ELSE {Fail(JiraApiError(404))}) \cup TransientFailures

\* "Board <id>", "Unknown board" without an id
FallbackBoardName(boardId) ==
    IF boardId = 0 THEN <<"U", "n", "k", "n", "o", "w", "n", SP, "b", "o", "a", "r", "d">> ELSE <<"B", "o", "a", "r", "d", SP>> \o NatToString(boardId)

\* fetchSprintById: the sprint arrives; its board is asked for when it has one
fetchSprintById ==
    /\ pc = "fetchSprintById:sprint"
    /\ \E out \in SprintByIdOutcomes(call.sprintId.value) :
         IF ~out.ok THEN Throw(out.error)
         ELSE IF out.body.originBoardId # 0
         THEN /\ reqs' = Append(reqs, [endpoint |-> GetBoardRequest])
              /\ locals' = [locals EXCEPT !.sprintResponse = out.body]
              /\ pc' = "fetchSprintById:board"
              /\ result' = result
         ELSE LET summary == toSprintSummary(out.body,
                                 [id |-> 0, name |-> FallbackBoardName(0)])
              IN  IF summary = NoSprint
                  THEN Throw(PlainError("Sprint is missing mandatory fields"))
                  ELSE AssignResolved(summary, locals)
    /\ UNCHANGED <<call, upstream, config, history>>

\* fetchSprintById: the board arrives, or does not: the fallback name stays
fetchSprintByIdBoardSettled ==
    /\ pc = "fetchSprintById:board"
    /\ \E out \in {Ok([name |-> <<"B">>]), Ok([name |-> <<SP>>]), Fail(JiraApiError(404))} :
         LET boardId == locals.sprintResponse.originBoardId
             boardName == IF out.ok /\ normalizeString(out.body.name) # <<>>
                          THEN normalizeString(out.body.name)
                          ELSE FallbackBoardName(boardId)
             summary == toSprintSummary(locals.sprintResponse,
                                        [id |-> boardId, name |-> boardName])
         IN  IF summary = NoSprint
             THEN Throw(PlainError("Sprint is missing mandatory fields"))
             ELSE AssignResolved(summary, locals)
    /\ UNCHANGED <<call, upstream, config, history>>

\* the assignment request settles: the result without the issue, or getIssue
assignIssueToSprintPosted ==
    /\ pc = "assignIssueToSprint:post"
    /\ \E out \in WriteOutcomes :
         IF ~out.ok THEN Throw(out.error)
         ELSE IF call.loadIssueAfterAssign = "false"
         THEN /\ result' = Returned([issueKey |-> Trim(call.issueKey),
                                     sprint |-> locals.sprint])
              /\ pc' = "done"
              /\ UNCHANGED <<reqs, locals>>
         ELSE /\ result' = result
              /\ BeginGetIssue(call.options, locals)
    /\ UNCHANGED <<call, upstream, config, history>>

CommentBodyInputs == {<<"h", "i">>, <<SP, LF>>}

\* addComment up to its first await
addComment ==
    /\ pc = "idle"
    /\ \E body \in CommentBodyInputs :
         /\ call' = [op |-> "addComment", issueKey |-> <<"K">>, body |-> body]
         /\ IF Trim(body) = <<>>
            THEN Throw(PlainError("Comment body cannot be empty."))
            ELSE /\ reqs' = Append(reqs, [endpoint |-> PostCommentRequest,
                                          body |-> plainTextToAdf(Trim(body))])
                 /\ pc' = "addComment:post"
                 /\ UNCHANGED <<locals, result>>
    /\ UNCHANGED <<upstream, config, history>>

\* the comment request settles: the comment as toIssueComment reads it
addCommentPosted ==
    /\ pc = "addComment:post"
    /\ \E out \in WriteOutcomes :
         IF ~out.ok THEN Throw(out.error)
         ELSE /\ result' = Returned([issueKey |-> call.issueKey,
                                     comment |-> [id |-> <<"1">>,
                                                  body |-> adfToPlainText(
                                                      reqs[Len(reqs)].body)]])
              /\ pc' = "done"
              /\ UNCHANGED <<reqs, locals>>
    /\ UNCHANGED <<call, upstream, config, history>>

(***************************************************************************)
(* SpecCalls: the calls that check their input (searchIssues,              *)
(* searchIssuesByJql, updateIssue, addComment, assignIssueToSprint) against *)
(* one tracker with up to MaxBoards scrum boards                           *)
(***************************************************************************)
InitCalls ==
    /\ call = NoCall
    /\ pc = "idle"
    /\ locals = IssueLocals
    /\ reqs = <<>>
    /\ result = Pending
    /\ upstream \in [comments : {MaxComments}, reportsTotal : {TRUE},
                     transitions : {<<JiraTransition(<<"1">>, <<"A">>, <<"B">>)>>},
                     issueTypes : {IssueTypeCatalog},
                     versions : {VersionsOfProject},
                     boards : 0..MaxBoards,
                     recentIssues : {70}, workflowTypes : 0..MaxWorkflowTypes,
                     enhancedAvailable : BOOLEAN, total : {3}, pageCap : {2}]
    /\ config \in {[severityFieldId |-> TRUE, severityValueType |-> "option"]}
    /\ history = NoHistory

NextCalls ==
    \/ searchIssues
    \/ searchIssuesEnhancedSettled
    \/ searchIssuesLegacySettled
    \/ searchIssuesByJql
    \/ searchIssuesByJqlEnhancedSettled
    \/ searchIssuesByJqlLegacySettled
    \/ updateIssue
    \/ updateIssueProjectKeyResolved
    \/ updateIssueFixVersionsResolved
    \/ updateIssueAffectedVersionsResolved
    \/ updateIssuePut
    \/ tryTransitionIssueListed
    \/ tryTransitionIssuePosted
    \/ addComment
    \/ addCommentPosted
    \/ assignIssueToSprint
    \/ assignIssueToSprintProjectKeyResolved
    \/ listSprintsBoardsFetched
    \/ listSprintsSprintsFetched
    \/ fetchSprintById
    \/ fetchSprintByIdBoardSettled
    \/ assignIssueToSprintPosted
    \/ getIssueSettled
    \/ fetchLastIssueCommentsProbed
    \/ fetchLastIssueCommentsLoaded
    \/ fetchAllIssueCommentsPaged
    \/ getProjectBaseline
    \/ getProjectBaselineProject
    \/ fetchPrioritiesSearched
    \/ fetchPrioritiesFallback
    \/ fetchProjectVersions
    \/ fetchProjectAssignableUsersPage
    \/ fetchProjectAssignableUsersPageFallback
    \/ countRecentAssignedIssuesByUser
    \/ workflowStatuses
    \/ buildFieldProfileSettled
    \/ fetchRecentIssueKeysByStatus
    \/ listIssueTransitionsSettled
    \/ fetchScrumBoards
    \/ fetchSprintsFromBoards
    \/ buildSeverityContextSettled
    \/ IssueReturn

SpecCalls == InitCalls /\ [][NextCalls]_vars

(***************************************************************************)
(* resolveIssueTypeId and resolveVersionIds on their own                   *)
(***************************************************************************)
MaxCandidates == 2

\* the issue types or versions a project may list: one named like the id of
\* another, one without an id, one without a name
ResolveCandidates ==
    {[id |-> <<"2">>, name |-> <<"1">>], [id |-> <<"1">>, name |-> <<"A">>],
     [id |-> <<>>, name |-> <<"1">>], [id |-> <<"1">>, name |-> <<>>]}

\* requested: an id that is also a name, the same behind a blank, a name in
\* another case, something unknown
RequestedIssueTypes == {<<"1">>, <<SP, "1">>, <<"a">>, <<"x">>}

RequestedVersionLists ==
    {<<>>, <<<<SP>>>>, <<<<"1">>>>, <<<<"a">>, <<"1", SP>>>>, <<<<"2">>, <<"1">>>>, <<<<"x">>, <<"a">>>>}

InitResolve ==
    /\ call = NoCall
    /\ pc = "idle"
    /\ locals = IssueLocals
    /\ reqs = <<>>
    /\ result = Pending
    /\ upstream \in [issueTypes : SeqsUpTo(ResolveCandidates, MaxCandidates),
                     versions : SeqsUpTo(ResolveCandidates, MaxCandidates)]
    /\ config = NoConfig
    /\ history = NoHistory

\* resolveIssueTypeId up to its await: the project request
resolveIssueTypeId ==
    /\ pc = "idle"
    /\ \E requested \in RequestedIssueTypes :
         call' = [op |-> "resolveIssueTypeId", requested |-> requested]
    /\ reqs' = <<[endpoint |-> GetProjectRequest]>>
    /\ pc' = "resolveIssueTypeId"
    /\ result' = Pending
    /\ UNCHANGED <<locals, upstream, config, history>>

\* the project arrives: the id of the match, or the error listing the names
resolveIssueTypeIdSettled ==
    /\ pc = "resolveIssueTypeId"
    /\ \E out \in ProjectOutcomes :
         IF ~out.ok THEN Throw(out.error)
         ELSE LET id == ResolvedIssueTypeId(out.body.issueTypes, call.requested)
              IN  IF id = <<>> THEN Throw(UnknownIssueType(out.body.issueTypes))
                  ELSE /\ result' = Returned(id)
                       /\ pc' = "done"
                       /\ UNCHANGED <<reqs, locals>>
    /\ UNCHANGED <<call, upstream, config, history>>

\* resolveVersionIds up to its await: nothing requested resolves to nothing
\* without a request
resolveVersionIds ==
    /\ pc = "idle"
    /\ \E requested \in RequestedVersionLists :
         /\ call' = [op |-> "resolveVersionIds", requested |-> requested]
         /\ IF TrimmedNonEmpty(requested) = <<>>
            THEN /\ result' = Returned(<<>>)
                 /\ pc' = "done"
                 /\ reqs' = <<>>
            ELSE /\ result' = Pending
                 /\ pc' = "resolveVersionIds"
                 /\ reqs' = <<[endpoint |-> GetVersionsRequest]>>
    /\ UNCHANGED <<locals, upstream, config, history>>

\* the versions arrive: the resolved ids, or the error naming what is missing
resolveVersionIdsSettled ==
    /\ pc = "resolveVersionIds"
    /\ \E out \in VersionsOutcomes :
         IF ~out.ok THEN Throw(out.error)
         ELSE LET answer == ResolveVersionIds(out.body, call.requested)
              IN  IF answer.missing # <<>> THEN Throw(UnknownVersions(answer.missing))
                  ELSE /\ result' = Returned(answer.resolved)
                       /\ pc' = "done"
                       /\ UNCHANGED <<reqs, locals>>
    /\ UNCHANGED <<call, upstream, config, history>>

NextResolve ==
    \/ resolveIssueTypeId
    \/ resolveIssueTypeIdSettled
    \/ resolveVersionIds
    \/ resolveVersionIdsSettled
    \/ IssueReturn

SpecResolve == InitResolve /\ [][NextResolve]_vars

(***************************************************************************)
(* buildIssueTypeFlows: the transition map and its sort on their own       *)
(***************************************************************************)
MaxEdgeTransitions == 3

\* the transitions a sample issue may list: names that differ in case only,
\* one that is another behind a blank, one without a name, one without a
\* target
EdgeTransitionCatalog ==
    {JiraTransition(<<"1">>, <<"b">>, <<"D">>), JiraTransition(<<"2">>, <<"B">>, <<"D">>),
     JiraTransition(<<"3">>, <<"a">>, <<"d">>), JiraTransition(<<"4">>, <<>>, <<"C">>),
     JiraTransition(<<"5">>, <<"b", SP>>, <<"D">>), JiraTransition(<<"6">>, <<"x">>, <<>>)}

\* the names of the sampled statuses of the issue type, in the order the
\* tracker lists the statuses
SampledStatusOrders == {<<<<"O", "p">>, <<"D", "o">>>>, <<<<"D", "o">>, <<"O", "p">>>>, <<<<"d", "o">>>>}

\* the loop over the sampled statuses: every sample issue lists the same
\* transitions
RECURSIVE CollectEdges(_, _, _)
CollectEdges(statusNames, transitions, edges) ==
    IF statusNames = <<>> THEN edges
    ELSE CollectEdges(Tail(statusNames), transitions,
                      TransitionEdges(Head(statusNames), transitions, edges))

InitEdges ==
    /\ call = NoCall
    /\ pc = "idle"
    /\ locals = NoLocals
    /\ reqs = <<>>
    /\ result = Pending
    /\ upstream \in [statusNames : SampledStatusOrders,
                     transitions : SeqsUpTo(EdgeTransitionCatalog, MaxEdgeTransitions)]
    /\ config = NoConfig
    /\ history = NoHistory

\* the transitions of one flow: the values of the map, sorted
FlowTransitions ==
    /\ pc = "idle"
    /\ call' = [op |-> "buildIssueTypeFlows"]
    /\ result' = Returned(SortEdges(CollectEdges(upstream.statusNames,
                                                 upstream.transitions, <<>>)))
    /\ pc' = "done"
    /\ UNCHANGED <<locals, reqs, upstream, config, history>>

NextEdges == FlowTransitions \/ JqlReturn

SpecEdges == InitEdges /\ [][NextEdges]_vars

(***************************************************************************)
(* updateIssue: the description, priority and severity of the edit payload *)
(***************************************************************************)
\* a field of UpdateIssueInput that may be left out, null, or a text
Unspecified == [state |-> "undefined", value |-> <<>>]
Null == [state |-> "null", value |-> <<>>]
Value(text) == [state |-> "value", value |-> text]

\* what is stored under a key of fields: null, a document, { id }, { name },
\* a string, a number or { value }
Payload(kind, text, number, doc) ==
    [kind |-> kind, text |-> text, number |-> number, doc |-> doc]

NullPayload == Payload("null", <<>>, 0, NullDocument)

\* a key of fields: not set, or set to a payload
Omitted == [sent |-> FALSE, value |-> NullPayload]
Sent(payload) == [sent |-> TRUE, value |-> payload]

\* a builder threw
Throws == [sent |-> FALSE, value |-> Payload("throws", <<>>, 0, NullDocument)]

\* input.description === null ? null : toJiraDescription(input.description),
\* the format being plain_text
DescriptionUpdateValue(description) ==
    IF description.state = "undefined" THEN Omitted
    ELSE IF description.state = "null" THEN Sent(NullPayload)
    ELSE Sent(Payload("doc", <<>>, 0, plainTextToAdf(description.value)))

\* a variant that builds the value as createIssue does: nothing for null
buildPriorityUpdateValueAsOnCreate(priority) ==
    LET normalized == Trim(priority.value)
    IN  IF priority.state # "value" \/ normalized = <<>> THEN Omitted
        ELSE IF IsDigits(normalized) THEN Sent(Payload("id", normalized, 0, NullDocument))
        ELSE Sent(Payload("name", normalized, 0, NullDocument))

buildPriorityUpdateValue(priority) ==
    LET normalized == Trim(priority.value)
    IN  IF priority.state = "undefined" THEN Omitted
        ELSE IF priority.state = "null" THEN Sent(NullPayload)
        ELSE IF normalized = <<>> THEN Sent(NullPayload)
        ELSE IF IsDigits(normalized) THEN Sent(Payload("id", normalized, 0, NullDocument))
        ELSE Sent(Payload("name", normalized, 0, NullDocument))

\* buildSeverityPayload on a text that is not blank
buildSeverityPayload(normalized) ==
    IF config.severityValueType = "string"
    THEN Sent(Payload("string", normalized, 0, NullDocument))
    ELSE IF config.severityValueType = "number"
    THEN IF IsDigits(normalized)
         THEN Sent(Payload("number", <<>>, DigitsValue(normalized), NullDocument))
         ELSE Throws
    ELSE Sent(Payload("option", normalized, 0, NullDocument))

buildSeverityUpdateValue(severity) ==
    IF severity.state = "undefined" THEN Omitted
    ELSE IF severity.state = "null" THEN Sent(NullPayload)
    ELSE IF Trim(severity.value) = <<>> THEN Sent(NullPayload)
    ELSE buildSeverityPayload(Trim(severity.value))

DescriptionEdits == {Unspecified, Null, Value(<<"d">>), Value(<<SP>>)}
PriorityEdits == {Unspecified, Null, Value(<<"0", "7">>), Value(<<SP, "h", "i", SP>>), Value(<<SP>>)}
SeverityEdits == {Unspecified, Null, Value(<<"0", "3">>), Value(<<"s", SP>>), Value(<<SP>>)}

InitEdit ==
    /\ call = NoCall
    /\ pc = "idle"
    /\ locals = NoLocals
    /\ reqs = <<>>
    /\ result = Pending
    /\ upstream = [none |-> TRUE]
    /\ config \in [severityFieldId : BOOLEAN,
                   severityValueType : {"option", "string", "number"}]
    /\ history = NoHistory

\* updateIssue with a description, a priority and a severity only, up to the
\* edit request: fields as it is sent, or the error thrown before
updateIssueFields ==
    /\ pc = "idle"
    /\ \E description \in DescriptionEdits, priority \in PriorityEdits,
          severity \in SeverityEdits :
         LET fields == [description |-> DescriptionUpdateValue(description),
                        priority |-> buildPriorityUpdateValue(priority),
                        severity |-> buildSeverityUpdateValue(severity)]
         IN  /\ call' = [op |-> "updateIssue", description |-> description,
                         priority |-> priority, severity |-> severity]
             /\ IF fields.severity = Throws
                THEN /\ result' = Thrown(PlainError("Severity is not numeric"))
                     /\ reqs' = <<>>
                ELSE IF fields.severity.sent /\ ~config.severityFieldId
                THEN /\ result' = Thrown(PlainError("Cannot update severity"))
                     /\ reqs' = <<>>
                ELSE IF \A key \in DOMAIN fields : ~fields[key].sent
                THEN /\ result' = Thrown(PlainError("No changes requested"))
                     /\ reqs' = <<>>
                ELSE /\ result' = Pending
                     /\ reqs' = <<[endpoint |-> PutIssueRequest, fields |-> fields]>>
    /\ pc' = "done"
    /\ UNCHANGED <<locals, upstream, config, history>>

EditReturn ==
    /\ pc = "done"
    /\ call' = NoCall
    /\ pc' = "idle"
    /\ reqs' = <<>>
    /\ result' = Pending
    /\ UNCHANGED <<locals, upstream, config, history>>

NextEdit == updateIssueFields \/ EditReturn

SpecEdit == InitEdit /\ [][NextEdit]_vars

(***************************************************************************)
(* toFocusedIssue: the subtasks and the linked issues of a raw issue       *)
(***************************************************************************)
MaxRefs == 3
MaxLinks == 2

\* an issue as it stands in fields.subtasks or in a link; NoIssue is a value
\* that is not an object
RawIssue(key, summary) ==
    [object |-> TRUE, key |-> key, summary |-> summary, status |-> <<>>,
     issueType |-> <<>>]
NoIssue ==
    [object |-> FALSE, key |-> <<>>, summary |-> <<>>, status |-> <<>>,
     issueType |-> <<>>]

RawLinkType(name, outward, inward) ==
    [name |-> name, outward |-> outward, inward |-> inward]
RawLink(type, outwardIssue, inwardIssue) ==
    [object |-> TRUE, type |-> type, outwardIssue |-> outwardIssue,
     inwardIssue |-> inwardIssue]
NoRawLink ==
    [object |-> FALSE, type |-> RawLinkType(<<>>, <<>>, <<>>),
     outwardIssue |-> NoIssue, inwardIssue |-> NoIssue]

\* toCompactIssueRef: nothing for a value that is no object or has no key
HasCompactIssueRef(value) == value.object /\ normalizeString(value.key) # <<>>

toCompactIssueRef(value) ==
    [key |-> normalizeString(value.key), summary |-> normalizeString(value.summary),
     status |-> normalizeString(value.status),
     issueType |-> normalizeString(value.issueType)]

\* the references in a list that have the key
WithKey(refs, key) == {i \in 1..Len(refs) : refs[i].key = key}

\* a map that takes the reference met last for a key, at the place of the
\* first
RECURSIVE extractIssueRefsKeepingLast(_, _)
extractIssueRefsKeepingLast(value, deduped) ==
    IF value = <<>> THEN deduped
    ELSE LET issueRef == toCompactIssueRef(Head(value))
         IN  IF ~HasCompactIssueRef(Head(value))
             THEN extractIssueRefsKeepingLast(Tail(value), deduped)
             ELSE IF WithKey(deduped, issueRef.key) = {}
             THEN extractIssueRefsKeepingLast(Tail(value), Append(deduped, issueRef))
             ELSE extractIssueRefsKeepingLast(Tail(value),
                      [i \in 1..Len(deduped) |->
                          IF deduped[i].key = issueRef.key THEN issueRef
                          ELSE deduped[i]])

\* extractIssueRefsFromArray: deduped is the Map in insertion order
RECURSIVE extractIssueRefsFromArray(_, _)
extractIssueRefsFromArray(value, deduped) ==
    IF value = <<>> THEN deduped
    ELSE LET issueRef == toCompactIssueRef(Head(value))
         IN  IF HasCompactIssueRef(Head(value)) /\ WithKey(deduped, issueRef.key) = {}
             THEN extractIssueRefsFromArray(Tail(value), Append(deduped, issueRef))
             ELSE extractIssueRefsFromArray(Tail(value), deduped)

\* normalizeString(linkType?.outward) ?? linkTypeName ?? "related"
LinkRelation(label, linkTypeName) ==
    IF normalizeString(label) # <<>> THEN normalizeString(label)
    ELSE IF linkTypeName # <<>> THEN linkTypeName
    ELSE <<"r", "e", "l", "a", "t", "e", "d">>

LinkedIssue(issueRef, relation, direction, linkTypeName) ==
    [key |-> issueRef.key, summary |-> issueRef.summary, status |-> issueRef.status,
     issueType |-> issueRef.issueType, relation |-> relation,
     direction |-> direction, linkType |-> linkTypeName]

\* `${direction}:${key}:${relation}`
LinkDedupKey(linked) ==
    <<linked.direction>> \o <<":">> \o linked.key \o <<":">> \o linked.relation

\* one side of a link: pushed unless its key is in the set already
PushLinked(linkedIssues, value, label, direction, linkTypeName) ==
    LET linked == LinkedIssue(toCompactIssueRef(value),
                              LinkRelation(label, linkTypeName), direction,
                              linkTypeName)
    IN  IF HasCompactIssueRef(value)
           /\ \A i \in 1..Len(linkedIssues) :
                  LinkDedupKey(linkedIssues[i]) # LinkDedupKey(linked)
        THEN Append(linkedIssues, linked)
        ELSE linkedIssues

\* extractLinkedIssues: the keys in deduped are those of linkedIssues
RECURSIVE extractLinkedIssues(_, _)
extractLinkedIssues(value, linkedIssues) ==
    IF value = <<>> THEN linkedIssues
    ELSE LET link == Head(value)
             linkTypeName == normalizeString(link.type.name)
             outward == PushLinked(linkedIssues, link.outwardIssue,
                                   link.type.outward, "outward", linkTypeName)
             inward == PushLinked(outward, link.inwardIssue, link.type.inward,
                                  "inward", linkTypeName)
         IN  IF ~link.object THEN extractLinkedIssues(Tail(value), linkedIssues)
             ELSE extractLinkedIssues(Tail(value), inward)

RawSubtasks ==
    {RawIssue(<<"A", "-", "1">>, <<"x">>), RawIssue(<<SP, "A", "-", "1">>, <<"y">>), RawIssue(<<"B", "-", "2">>, <<"z">>),
     RawIssue(<<SP>>, <<"w">>), NoIssue}

BlocksType == RawLinkType(<<"B", "l", "o", "c", "k", "s">>, <<"b", "l", "o", "c", "k", "s">>, <<"i", "s", SP, "b", "l", "o", "c", "k", "e", "d", SP, "b", "y">>)
BareType == RawLinkType(<<"b", "l", "o", "c", "k", "s">>, <<>>, <<SP>>)
NoType == RawLinkType(<<>>, <<>>, <<>>)

RawLinks ==
    {RawLink(BlocksType, RawIssue(<<"A", "-", "1">>, <<"x">>), NoIssue),
     RawLink(BlocksType, RawIssue(<<"A", "-", "1", SP>>, <<"y">>), RawIssue(<<"A", "-", "1">>, <<"x">>)),
     RawLink(BareType, RawIssue(<<"A", "-", "1">>, <<"v">>), RawIssue(<<"B", "-", "2">>, <<"z">>)),
     RawLink(NoType, RawIssue(<<"B", "-", "2">>, <<"z">>), RawIssue(<<"B", "-", "2">>, <<"u">>)),
     RawLink(BlocksType, RawIssue(<<"B", "-", "2">>, <<"z">>), NoIssue),
     NoRawLink}

SequencesUpTo(values, n) == UNION {[1..k -> values] : k \in 0..n}

InitRefs ==
    /\ call = NoCall
    /\ pc = "idle"
    /\ locals = [projected |-> <<>>]
    /\ reqs = <<>>
    /\ result = Pending
    /\ upstream \in
           [subtasks : SequencesUpTo(RawSubtasks, MaxRefs), issuelinks : {<<>>}]
           \cup [subtasks : {<<>>}, issuelinks : SequencesUpTo(RawLinks, MaxLinks)]
    /\ config = NoConfig
    /\ history = NoHistory

\* toFocusedIssue on the raw issue, its subtasks and linkedIssues; locals
\* keeps what the projection before gave
toFocusedIssue ==
    /\ pc = "idle"
    /\ Len(locals.projected) < 2
    /\ call' = [op |-> "toFocusedIssue"]
    /\ result' = Returned([subtasks |-> extractIssueRefsFromArray(upstream.subtasks, <<>>),
                           linkedIssues |-> extractLinkedIssues(upstream.issuelinks, <<>>)])
    /\ locals' = [projected |-> Append(locals.projected, result'.value)]
    /\ pc' = "done"
    /\ UNCHANGED <<reqs, upstream, config, history>>

RefsReturn ==
    /\ pc = "done"
    /\ call' = NoCall
    /\ pc' = "idle"
    /\ result' = Pending
    /\ UNCHANGED <<locals, reqs, upstream, config, history>>

NextRefs == toFocusedIssue \/ RefsReturn

SpecRefs == InitRefs /\ [][NextRefs]_vars

(***************************************************************************)
(* fetchSprintsFromBoards: one request per board, all at once              *)
(***************************************************************************)
MaxSprintBoards == 3

RawSprint(id, name, state) ==
    [id |-> id, name |-> name, state |-> state, originBoardId |-> 0]

\* what each board answers when asked for its sprints: sprint 1 is on boards
\* 1 and 2, sprint 2 on boards 1 and 3, sprints 1 and 3 have one name and one
\* state, sprint 4 has no name
BoardSprintsAnswer(boardId) ==
    IF boardId = 1
    THEN <<RawSprint(1, <<"S">>, <<"a", "c", "t", "i", "v", "e">>), RawSprint(2, <<"a">>, <<"c", "l", "o", "s", "e", "d">>)>>
    ELSE IF boardId = 2
    THEN <<RawSprint(3, <<"S">>, <<"a", "c", "t", "i", "v", "e">>), RawSprint(1, <<"S">>, <<"a", "c", "t", "i", "v", "e">>),
           RawSprint(4, <<>>, <<"a", "c", "t", "i", "v", "e">>)>>
    ELSE IF boardId = 3
    THEN <<RawSprint(5, <<"R">>, <<"f", "u", "t", "u", "r", "e">>), RawSprint(2, <<"a">>, <<"c", "l", "o", "s", "e", "d">>)>>
    ELSE <<RawSprint(10 + boardId, <<"Z">>, <<"c", "l", "o", "s", "e", "d">>)>>

\* the lists of boards: any boards in any order, none twice
BoardLists ==
    {boards \in SequencesUpTo(1..MaxSprintBoards, MaxSprintBoards) :
        \A i, j \in 1..Len(boards) : boards[i] = boards[j] => i = j}

\* the collections flattened in the order in which the boards answered
SprintCollectionsAsAnswered(answers, order) ==
    [k \in 1..Len(order) |-> answers[order[k]].sprints]

\* what Promise.all resolves to: the collection of each board, at the place
\* of the board
SprintCollections(answers, order) ==
    [b \in 1..Len(answers) |-> answers[b].sprints]

InitSprints ==
    /\ call = NoCall
    /\ pc = "idle"
    /\ locals = NoLocals
    /\ reqs = <<>>
    /\ result = Pending
    /\ upstream = [none |-> TRUE]
    /\ config = NoConfig
    /\ history = NoHistory

\* fetchSprintsFromBoards up to its await: boards.map starts the request of
\* every board; without a board Promise.all resolves at once
fetchSprintsFromBoardsStarted ==
    /\ pc = "idle"
    /\ \E ids \in BoardLists :
         LET boards == [i \in 1..Len(ids) |-> [id |-> ids[i], name |-> <<"B">>]]
         IN  /\ call' = [op |-> "fetchSprintsFromBoards", boards |-> boards]
             /\ reqs' = [i \in 1..Len(boards) |->
                            [endpoint |-> BoardSprintsRequest, board |-> boards[i].id]]
             /\ locals' = [answers |-> [i \in 1..Len(boards) |->
                                           [settled |-> FALSE, ok |-> FALSE,
                                            sprints |-> <<>>]],
                           order |-> <<>>]
             /\ IF boards = <<>>
                THEN /\ result' = Returned(<<>>)
                     /\ pc' = "done"
                ELSE /\ result' = Pending
                     /\ pc' = "fetchSprintsFromBoards"
    /\ UNCHANGED <<upstream, config, history>>

\* the request of one board settles, in any order; a failure is caught and
\* gives []. With the last one the collections are merged and sorted.
boardSprintsSettled ==
    /\ pc = "fetchSprintsFromBoards"
    /\ \E i \in 1..Len(call.boards) :
       \E outcome \in {Ok(BoardSprintsAnswer(call.boards[i].id)), Fail(TimeoutError),
                       Fail(JiraApiError(404))} :
         /\ ~locals.answers[i].settled
         /\ LET sprints == IF outcome.ok THEN SummariesOf(outcome.body, call.boards[i])
                           ELSE <<>>
                answers == [locals.answers EXCEPT
                               ![i] = [settled |-> TRUE, ok |-> outcome.ok,
                                       sprints |-> sprints]]
                order == Append(locals.order, i)
            IN  /\ locals' = [answers |-> answers, order |-> order]
                /\ IF \E b \in 1..Len(answers) : ~answers[b].settled
                   THEN UNCHANGED <<pc, result>>
                   ELSE /\ result' = Returned(SortSprints(DedupedSprints(
                                         Concat(SprintCollections(answers, order)),
                                         <<>>)))
                        /\ pc' = "done"
    /\ UNCHANGED <<call, reqs, upstream, config, history>>

SprintsReturn ==
    /\ pc = "done"
    /\ call' = NoCall
    /\ pc' = "idle"
    /\ locals' = NoLocals
    /\ reqs' = <<>>
    /\ result' = Pending
    /\ UNCHANGED <<upstream, config, history>>

NextSprints == fetchSprintsFromBoardsStarted \/ boardSprintsSettled \/ SprintsReturn

SpecSprints == InitSprints /\ [][NextSprints]_vars

(***************************************************************************)
(* C1                                                                      *)
(***************************************************************************)
\* a line that is empty or holds white space only
IsBlankLine(line) == \A i \in 1..Len(line) : line[i] \in WhiteSpace

\* the text is not empty and its last line is blank
HasTrailingBlankLine(s) ==
    LET lines == SplitLines(ReplaceCrLf(s))
    IN  s # <<>> /\ IsBlankLine(lines[Len(lines)])

NoOuterWhiteSpace(n) ==
    n = <<>> \/ (n[1] \notin WhiteSpace /\ n[Len(n)] \notin WhiteSpace)

NoTripleNewline(n) ==
    \A i \in 1..(Len(n) - 2) : ~(n[i] = LF /\ n[i + 1] = LF /\ n[i + 2] = LF)

\* C1 as stated: for every plain text s without trailing blank lines,
\* adfToPlainText(plainTextToAdf(s)) equals s with CRLF normalised to LF.
C1_RoundTripAsStated ==
    (pc = "text" /\ ~HasTrailingBlankLine(call.text))
        => result.text = ReplaceCrLf(call.text)

\* C1 amended: for every plain text s that, once CRLF is normalised to LF,
\* neither starts nor ends with white space and has no run of three or more
\* line breaks, adfToPlainText(plainTextToAdf(s)) equals s with CRLF
\* normalised to LF.
C1_RoundTrip ==
    (/\ pc = "text"
     /\ NoOuterWhiteSpace(ReplaceCrLf(call.text))
     /\ NoTripleNewline(ReplaceCrLf(call.text)))
        => result.text = ReplaceCrLf(call.text)

\* a text with a CRLF and an inner blank line went through the round trip
C1_Witness ==
    /\ pc = "text"
    /\ call.text = <<"a", CR, LF, LF, "a">>
    /\ result.text = <<"a", LF, LF, "a">>

(***************************************************************************)
(* C2                                                                      *)
(***************************************************************************)
\* C2: in every searchIssues and searchIssuesByJql call the first request
\* goes to the enhanced endpoint, also when the call before ended in legacy
\* mode; a legacy request is only ever the second request of a call, made
\* after the enhanced request of that call failed with status 404, and there
\* is at most one; any other enhanced failure is thrown to the caller with
\* no legacy request.
C2_EnhancedFirstLegacyOn404Only ==
    /\ reqs # <<>> => reqs[1].endpoint = EnhancedSearch
    /\ Len(reqs) <= 2
    /\ \A i \in 1..Len(reqs) :
         reqs[i].endpoint = LegacySearch
             => i = 2 /\ locals.error = JiraApiError(404)
    /\ (locals.error.kind # None /\ locals.error # JiraApiError(404))
         => /\ Len(reqs) = 1
            /\ pc = "done"
            /\ result = Thrown(locals.error)

\* a call that follows a call answered in legacy mode asked the enhanced
\* endpoint first, got a 404, and was answered by the legacy endpoint
C2_Witness ==
    /\ pc = "done"
    /\ history.lastMode = "legacy"
    /\ Len(reqs) = 2
    /\ reqs[1].endpoint = EnhancedSearch
    /\ reqs[2].endpoint = LegacySearch
    /\ result.status = "ok"

(***************************************************************************)
(* C3                                                                      *)
(***************************************************************************)
JqlAnswered ==
    pc = "done" /\ call.op = "searchIssuesByJql" /\ result.status = "ok"

\* C3 as stated: searchIssuesByJql, in enhanced and in legacy mode: 51 raw
\* items give exactly 50 issues, truncated = true and the fixed notice;
\* 50 or fewer raw items give truncated = false and notice = null.
C3_TruncationAsStated ==
    JqlAnswered =>
        /\ Len(locals.response.issues) = 51
             => /\ Len(result.value.issues) = 50
                /\ result.value.truncated
                /\ result.value.notice = JQL_RESULTS_TRUNCATED_NOTICE
        /\ Len(locals.response.issues) <= 50
             => /\ ~result.value.truncated
                /\ result.value.notice = None

\* C3 amended: searchIssuesByJql, in enhanced and in legacy mode: 51 raw
\* items give exactly 50 issues, truncated = true and the fixed notice;
\* 50 or fewer raw items give truncated = false and notice = null when the
\* response carries no continuation token (enhanced) or reports a total of
\* at most 50 (legacy), and truncated = true with the notice otherwise.
C3_Truncation ==
    JqlAnswered =>
        LET response == locals.response
            more == IF result.value.mode = "enhanced"
                    THEN response.nextPageToken # <<>>
                    ELSE response.total > 50
        IN  /\ Len(response.issues) = 51
                 => /\ Len(result.value.issues) = 50
                    /\ result.value.truncated
                    /\ result.value.notice = JQL_RESULTS_TRUNCATED_NOTICE
            /\ (Len(response.issues) <= 50 /\ ~more)
                 => /\ ~result.value.truncated
                    /\ result.value.notice = None
            /\ (Len(response.issues) <= 50 /\ more)
                 => /\ result.value.truncated
                    /\ result.value.notice = JQL_RESULTS_TRUNCATED_NOTICE

\* the legacy endpoint answered with 51 raw items and 50 were returned
C3_Witness ==
    /\ JqlAnswered
    /\ result.value.mode = "legacy"
    /\ Len(locals.response.issues) = 51
    /\ Len(result.value.issues) = 50
    /\ result.value.truncated

(***************************************************************************)
(* C4                                                                      *)
(***************************************************************************)
\* C4 as stated: every searchIssuesByJql result with truncated = true holds
\* exactly 50 issues and the fixed notice string.
C4_TruncatedExactlyFiftyAsStated ==
    (JqlAnswered /\ result.value.truncated)
        => /\ Len(result.value.issues) = 50
           /\ result.value.notice = JQL_RESULTS_TRUNCATED_NOTICE

\* C4 amended: every searchIssuesByJql result with truncated = true holds at
\* most 50 issues, exactly 50 when the response held more than 50 raw items,
\* and the fixed notice string.
C4_TruncatedAtMostFifty ==
    (JqlAnswered /\ result.value.truncated)
        => /\ Len(result.value.issues) <= 50
           /\ Len(locals.response.issues) > 50 => Len(result.value.issues) = 50
           /\ result.value.notice = JQL_RESULTS_TRUNCATED_NOTICE

\* a truncated result of fewer than 50 issues: the tracker served a short
\* page together with a continuation token
C4_Witness ==
    /\ JqlAnswered
    /\ result.value.truncated
    /\ result.value.mode = "enhanced"
    /\ Len(result.value.issues) < 50
    /\ result.value.notice = JQL_RESULTS_TRUNCATED_NOTICE

(***************************************************************************)
(* C5                                                                      *)
(***************************************************************************)
IssueAnswered == pc = "done" /\ result.status = "ok"

\* C5: when the comment endpoint reports total = N, loading in last_3 mode
\* returns exactly min(N,3) comments, the newest ones, oldest first, with
\* commentsMeta.returned = min(N,3) and commentsMeta.total = N; for N = 0
\* the list is empty with total = 0 and returned = 0.
C5_LastThreeComments ==
    (/\ IssueAnswered
     /\ result.value.issue.commentsMeta.mode = "last_3"
     /\ upstream.reportsTotal)
        => LET N == upstream.comments
               k == Min(N, 3)
               comments == result.value.issue.comments
               meta == result.value.issue.commentsMeta
           IN  /\ Len(comments) = k
               /\ \A i \in 1..Len(comments) : comments[i].id = N - k + i
               /\ meta.returned = k
               /\ meta.total = N

\* five comments upstream: the third, fourth and fifth came back, in order
C5_Witness ==
    /\ IssueAnswered
    /\ upstream.comments = 5
    /\ upstream.reportsTotal
    /\ result.value.issue.commentsMeta = CommentsMeta("last_3", 5, 3)
    /\ Len(result.value.issue.comments) = 3
    /\ result.value.issue.comments[1].id = 3
    /\ result.value.issue.comments[3].id = 5

(***************************************************************************)
(* C6                                                                      *)
(***************************************************************************)
\* C6: with skipComments = true the mode is skip whatever
\* loadOnlyLast3Comments is: no comment request is ever issued and the meta
\* is {mode: skip, total: 0, returned: 0}; with skipComments false or absent
\* the mode is last_3 unless loadOnlyLast3Comments is explicitly false, and
\* only then is it all.
C6_CommentMode ==
    call.op = "getIssue" =>
        /\ call.options.skipComments = "true"
             => \A i \in 1..Len(reqs) : reqs[i].endpoint # GetCommentsRequest
        /\ IssueAnswered =>
             LET meta == result.value.issue.commentsMeta
             IN  IF call.options.skipComments = "true"
                 THEN /\ meta = CommentsMeta("skip", 0, 0)
                      /\ result.value.issue.comments = <<>>
                 ELSE IF call.options.loadOnlyLast3Comments = "false"
                 THEN meta.mode = "all"
                 ELSE meta.mode = "last_3"

\* skipComments = true together with loadOnlyLast3Comments = false, on an
\* issue that has comments: answered in skip mode after the issue request only
C6_Witness ==
    /\ IssueAnswered
    /\ call.op = "getIssue"
    /\ call.options = IssueReadOptions("true", "false")
    /\ upstream.comments > 0
    /\ result.value.issue.commentsMeta.mode = "skip"
    /\ Len(reqs) = 1

(***************************************************************************)
(* C7                                                                      *)
(***************************************************************************)
\* no transition the tracker offers matches the (non-blank) requested status
NoTransitionMatches ==
    /\ Trim(call.status) # <<>>
    /\ \A i \in 1..Len(upstream.transitions) :
         ~TransitionMatches(upstream.transitions[i], ToLowerCase(Trim(call.status)))

\* the transition list has been received: something was requested after it
TransitionsListed ==
    \E i \in 1..(Len(reqs) - 1) : reqs[i].endpoint = GetTransitionsRequest

NoMatchResult ==
    NotApplied(Trim(call.status), ReasonNoMatch, AvailableTargets(upstream.transitions))

\* C7: when no available transition matches the requested status,
\* tryTransitionIssue issues no transition request and returns
\* {applied: false, reason: 'No matching transition found...'}; createIssue,
\* updateIssue and transitionIssue then go on to read the issue and return
\* it together with that transition result: the only way the call can still
\* fail is a failed request of that closing read.
C7_NoMatchIsNotAnError ==
    (/\ call.op \in {"createIssue", "updateIssue", "transitionIssue"}
     /\ NoTransitionMatches)
        => /\ \A i \in 1..Len(reqs) : reqs[i].endpoint # PostTransitionRequest
           /\ TransitionsListed =>
                /\ locals.transition = NoMatchResult
                /\ pc \in {"getIssue:issue", "fetchLastIssueComments:probe",
                           "fetchLastIssueComments:page",
                           "fetchAllIssueComments:page", "done"}
           /\ (TransitionsListed /\ pc = "done") =>
                IF result.status = "ok"
                THEN /\ result.value.transition = NoMatchResult
                     /\ result.value.issue.key = "ISSUE"
                ELSE /\ reqs[Len(reqs)].endpoint \in {GetIssueRequest, GetCommentsRequest}
                     /\ result.error \in {JiraApiError(404), JiraApiError(500),
                                          TimeoutError}

\* createIssue asked for a status that none of the offered transitions leads
\* to and returned the issue with applied = false
C7_Witness ==
    /\ pc = "done"
    /\ call.op = "createIssue"
    /\ NoTransitionMatches
    /\ upstream.transitions # <<>>
    /\ result.status = "ok"
    /\ ~result.value.transition.applied
    /\ result.value.transition.reason = ReasonNoMatch
    /\ \A i \in 1..Len(reqs) : reqs[i].endpoint # PostTransitionRequest

(***************************************************************************)
(* C8                                                                      *)
(***************************************************************************)
BaselineAnswered == call.op = "getProjectBaseline" /\ pc = "done"

\* the project lookup itself succeeded: its request was answered and the
\* project it answered with carries an id, a key and a name
ProjectLookupSucceeded ==
    /\ reqs # <<>>
    /\ reqs[1].lookup = "project" /\ reqs[1].answer = "ok"
    /\ HasRequiredString(locals.project.id)
    /\ HasRequiredString(locals.project.key)
    /\ HasRequiredString(locals.project.name)

\* a sub-lookup failed, read off the answers the tracker gave: one of its
\* requests failed and the failure is not one the sub-lookup absorbs (the
\* project priority search, a 400 on the first assignable-users request, the
\* transitions of a sample issue, the sprints of one board)
SubLookupFailed(lookup) ==
    \E i \in 1..Len(reqs) :
        /\ reqs[i].lookup = lookup
        /\ reqs[i].answer = "failed"
        /\ reqs[i].endpoint # PrioritySearchRequest
        /\ ~(reqs[i].endpoint = AssignableByProjectRequest /\ reqs[i].status = 400)
        /\ reqs[i].endpoint # GetTransitionsRequest
        /\ reqs[i].endpoint # BoardSprintsRequest

NotesAbout(baseline, lookup) ==
    {i \in 1..Len(baseline.notes) : baseline.notes[i].text = NotePrefix[lookup]}

\* the section of a sub-lookup is at its empty or fallback value
SectionLeftEmpty(baseline, lookup) ==
    CASE lookup = "priorities" -> baseline.priorities = <<>>
      [] lookup = "versions" -> baseline.versions = <<>>
      [] lookup = "assignableUsers" -> baseline.assignableUsers = <<>>
      [] lookup = "workflowStatuses" -> baseline.workflow.issueTypeFlows = <<>>
      [] lookup = "fieldProfile" ->
             baseline.fieldProfile =
                 FallbackFieldProfile(baseline.issueTypes, baseline.priorities,
                                      baseline.versions)
      [] lookup = "workflowTransitions" -> baseline.workflow.issueTypeFlows = <<>>
      [] lookup = "activeSprints" -> baseline.activeSprints = <<>>
      [] lookup = "severity" -> baseline.severity = defaultSeverityContext

\* C8: whenever the project lookup of getProjectBaseline succeeds, the call
\* returns a baseline; every one of the eight sub-lookups has been attempted,
\* in order; each sub-lookup that failed has exactly one note and its section
\* at the empty or fallback value, each one that did not fail has no such
\* note, and the only other note there can be is the one about the bounded
\* scan window.
C8_BaselineSurvivesSubLookupFailures ==
    (BaselineAnswered /\ ProjectLookupSucceeded) =>
        /\ result.status = "ok"
        /\ locals.attempted = SubLookups
        /\ \A lookup \in {"priorities", "versions", "assignableUsers",
                          "workflowStatuses", "fieldProfile", "activeSprints"} :
               \E i \in 1..Len(reqs) : reqs[i].lookup = lookup
        /\ \A k \in 1..Len(SubLookups) :
               LET lookup == SubLookups[k]
               IN  IF SubLookupFailed(lookup)
                   THEN /\ Cardinality(NotesAbout(result.value, lookup)) = 1
                        /\ SectionLeftEmpty(result.value, lookup)
                   ELSE NotesAbout(result.value, lookup) = {}
        /\ \A i \in 1..Len(result.value.notes) :
               \/ result.value.notes[i] = BoundedScanNote
               \/ \E k \in 1..Len(SubLookups) : i \in NotesAbout(result.value, SubLookups[k])

\* a baseline is returned although seven sub-lookups failed (the workflow
\* transitions can only fail once the workflow statuses are there)
C8_Witness ==
    /\ BaselineAnswered /\ ProjectLookupSucceeded
    /\ result.status = "ok"
    /\ \A k \in 1..Len(SubLookups) :
           SubLookups[k] # "workflowStatuses" => SubLookupFailed(SubLookups[k])
    /\ Len(result.value.notes) = 7

(***************************************************************************)
(* C9                                                                      *)
(***************************************************************************)
\* a linkIssue call has had its link types answered
LinkTypesFetched ==
    /\ call.op = "linkIssue"
    /\ reqs # <<>>
    /\ reqs[1].endpoint = GetLinkTypesRequest /\ reqs[1].answer = "ok"

\* the relation was resolved: the call went on to post the link
RelationResolved ==
    /\ Len(reqs) >= 2
    /\ reqs[2].endpoint = PostIssueLinkRequest
    /\ locals.resolved.found

\* the alias set in the words of the claim: the normalised key, plus the key
\* with a leading "is" removed
AliasesAsStated(label) ==
    LET key == normalizeLabelForMatch(label)
    IN  {key} \cup (IF StartsWithIs(key) THEN {SubSeq(key, 3, Len(key))} ELSE {})

\* the aliases that are not empty
Aliases(label) == {alias \in AliasesAsStated(label) : alias # <<>>}

DirectionLabels(linkType) == {linkType.inward, linkType.outward} \ {<<>>}

\* C9 as stated: the relation is resolved whenever some link type of the
\* answer has an inward or outward label whose alias set intersects the alias
\* set of the requested label.
C9_ResolvesAsStated ==
    (/\ LinkTypesFetched
     /\ \E i \in 1..Len(upstream.linkTypes) :
            \E label \in DirectionLabels(upstream.linkTypes[i]) :
                AliasesAsStated(label) \cap AliasesAsStated(call.relation) # {})
        => RelationResolved

\* C9 amended: the relation is resolved whenever some link type that has a
\* name has an inward or outward label that shares a non-empty alias with the
\* requested label; in particular "is blocked by" is resolved by a named link
\* type whose inward label is "is blocked by" or whose outward label has the
\* alias "isblockedby" or "blockedby".
C9_Resolves ==
    LET named == {i \in 1..Len(upstream.linkTypes) :
                     Trim(upstream.linkTypes[i].name) # <<>>}
    IN  /\ (/\ LinkTypesFetched
            /\ \E i \in named :
                   \E label \in DirectionLabels(upstream.linkTypes[i]) :
                       Aliases(label) \cap Aliases(call.relation) # {})
               => RelationResolved
        /\ (/\ LinkTypesFetched
            /\ call.relation = IsBlockedByLabel
            /\ \E i \in named :
                   \/ upstream.linkTypes[i].inward = IsBlockedByLabel
                   \/ Aliases(upstream.linkTypes[i].outward)
                          \cap {<<"i", "s", "b", "l", "o", "c", "k", "e", "d", "b", "y">>,
                                <<"b", "l", "o", "c", "k", "e", "d", "b", "y">>} # {})
               => RelationResolved

\* "is blocked by" is resolved, in the outward direction, by a tracker whose
\* only match is an outward label "Blocked-By"
C9_Witness ==
    /\ LinkTypesFetched
    /\ call.relation = IsBlockedByLabel
    /\ Len(upstream.linkTypes) = 1
    /\ upstream.linkTypes[1].outward = BlockedByDashed
    /\ RelationResolved
    /\ locals.resolved.direction = "outward"
    /\ locals.resolved.relation = BlockedByDashed

(***************************************************************************)
(* C10                                                                     *)
(***************************************************************************)
\* no link type that has a name shares a non-empty alias with the requested
\* relation, through its outward label, its inward label or its name
NoLinkTypeMatches ==
    \A i \in 1..Len(upstream.linkTypes) :
        LET linkType == upstream.linkTypes[i]
        IN  Trim(linkType.name) # <<>> =>
                \A label \in {linkType.outward, linkType.inward, linkType.name} \ {<<>>} :
                    Aliases(label) \cap Aliases(call.relation) = {}

\* the distinct labels of the link types, in the order the tracker gave them
DistinctRelations == DistinctInOrder(availableRelations(upstream.linkTypes), <<>>)

NoLinkPosted == \A i \in 1..Len(reqs) : reqs[i].endpoint # PostIssueLinkRequest

\* the call failed with the error about an unknown relation, and the error
\* lists exactly these labels
FailsListing(labels) ==
    /\ pc = "done"
    /\ result.status = "error"
    /\ result.error.kind = "Error"
    /\ result.error.message = "Unknown link relation. Available relations:"
    /\ result.error.preview = IF labels = <<>> THEN NonePreview ELSE JoinLabels(labels)

\* C10 as stated: when no link type matches, linkIssue fails with an error
\* that lists all the distinct outward, inward and name labels, and no link
\* is posted.
C10_ListsAllLabelsAsStated ==
    (LinkTypesFetched /\ NoLinkTypeMatches) =>
        (FailsListing(DistinctRelations) /\ NoLinkPosted)

\* C10 amended: when no link type matches, linkIssue fails with an error that
\* lists the first 40 distinct outward, inward and name labels in the order
\* the tracker gave them ("(none)" when there is no label), and no link is
\* posted.
C10_ListsFirstFortyLabels ==
    (LinkTypesFetched /\ NoLinkTypeMatches) =>
        /\ FailsListing(SubSeq(DistinctRelations, 1, Min(Len(DistinctRelations), 40)))
        /\ NoLinkPosted

\* a relation that nothing matches on a tracker with 42 distinct labels: the
\* call has failed without a POST
C10_Witness ==
    /\ LinkTypesFetched /\ NoLinkTypeMatches
    /\ Len(DistinctRelations) = 42
    /\ result.status = "error"
    /\ NoLinkPosted

(***************************************************************************)
(* C11                                                                     *)
(***************************************************************************)
\* the fix versions and the affected versions a write asks for, <<>> when the
\* call names none
RequestedFixVersions ==
    IF call.op = "createIssue" THEN call.fixVersions ELSE call.fixVersions.value

RequestedAffectedVersions ==
    IF call.op = "createIssue" THEN call.affectedVersions
    ELSE call.affectedVersions.value

\* createIssue asked for an issue type that no issue type of the project has
\* as its id or its name
IssueTypeUnresolved ==
    /\ call.op = "createIssue"
    /\ ResolvedIssueTypeId(upstream.issueTypes, call.issueType) = <<>>

\* the requested values of the first version list that has one matching no
\* version of the project: fixVersions before affectedVersions
UnresolvedVersions ==
    LET fix == ResolveVersionIds(upstream.versions, RequestedFixVersions).missing
    IN  IF fix # <<>> THEN fix
        ELSE ResolveVersionIds(upstream.versions, RequestedAffectedVersions).missing

\* a write whose issue type resolves, if it has one, and that asked for a
\* version no version of the project has as its id or its name
VersionUnresolved ==
    /\ call.op \in {"createIssue", "updateIssue"}
    /\ ~IssueTypeUnresolved
    /\ UnresolvedVersions # <<>>

VersionNames(versions) == [i \in 1..Len(versions) |-> versions[i].name]

NoIssueWritten ==
    \A i \in 1..Len(reqs) : reqs[i].endpoint \notin {PostIssueRequest, PutIssueRequest}

VersionsRequested == \E i \in 1..Len(reqs) : reqs[i].endpoint = GetVersionsRequest

\* the error is the failure of a request, not the refusal of a value
RequestFailed == result.error.kind = "JiraApiError" \/ result.error = TimeoutError

\* a finished write fails and has sent neither the create nor the edit
\* request; once the candidates were loaded its error lists these values
FailsUnwrittenListing(loaded, values) ==
    /\ result.status = "error"
    /\ NoIssueWritten
    /\ (loaded /\ ~RequestFailed) => result.error.listed = values

WordAt(text, i, word) ==
    /\ i >= 1 /\ i + Len(word) - 1 <= Len(text)
    /\ ToLowerCase(SubSeq(text, i, i + Len(word) - 1)) = word
    /\ (i = 1 \/ text[i - 1] \notin WordChars)
    /\ (i + Len(word) - 1 = Len(text) \/ text[i + Len(word)] \notin WordChars)

\* the text has the words ORDER and BY, in any case, with only white space
\* between them
IncludesOrderBy(text) ==
    \E i \in 1..Len(text) : \E j \in (i + 6)..Len(text) :
        /\ WordAt(text, i, <<"o", "r", "d", "e", "r">>)
        /\ WordAt(text, j, <<"b", "y">>)
        /\ \A k \in (i + 5)..(j - 1) : text[k] \in WhiteSpace

\* the raw query the caller gave, trimmed
CallerJql == Trim(IF call.op = "buildJql" THEN call.input.jql ELSE call.rawJql)

\* the query as compiled before the ordering is looked at
CompiledJql ==
    IF call.op = "buildJql" THEN CombinedJql(call.input, SeverityJqlField)
    ELSE CallerJql

EndsWithOrderBy(jql) ==
    /\ Len(jql) >= Len(OrderBySuffix)
    /\ SubSeq(jql, Len(jql) - Len(OrderBySuffix) + 1, Len(jql)) = OrderBySuffix

JqlCompiled ==
    /\ pc = "done"
    /\ call.op \in {"buildJql", "buildStrictJql"}
    /\ result.status = "ok"

\* C13: buildJql and buildStrictJql append " ORDER BY updated DESC" to the
\* compiled query exactly when the caller's query includes no ORDER BY, in
\* any case; a query compiled from structured filters alone always ends with
\* ORDER BY updated DESC.
C13_AppendsUnlessCallerOrders ==
    JqlCompiled =>
        /\ result.value = (IF IncludesOrderBy(CallerJql) THEN CompiledJql
                           ELSE CompiledJql \o OrderBySuffix)
        /\ (call.op = "buildJql" /\ CallerJql = <<>>) => EndsWithOrderBy(result.value)

\* a query compiled from the single filter summaryContains = "Order by" came
\* back without the ordering
C13_Unordered ==
    /\ JqlCompiled
    /\ call.op = "buildJql"
    /\ CallerJql = <<>>
    /\ call.input.summaryContains = <<"O", "r", "d", "e", "r", SP, "b", "y">>
    /\ call.input.projectKey = <<>> /\ call.input.statuses = <<>>
    /\ call.input.severities = <<>>
    /\ result.value = <<"s", "u", "m", "m", "a", "r", "y", SP, "~", SP, "\"", "O", "r", "d", "e", "r", SP, "b", "y", "\"">>

(***************************************************************************)
(* C14                                                                     *)
(***************************************************************************)
\* the values of the list that are not blank, without the white space around
\* them, in the given order
NonBlankValues(values) ==
    SelectSeq([i \in 1..Len(values) |-> Trim(values[i])], LAMBDA value : value # <<>>)

\* the value between quotes, every backslash doubled and every quote
\* preceded by a backslash
QuotedValue(value) ==
    <<QUOTE>>
        \o Concat([i \in 1..Len(value) |->
                      IF value[i] = BACKSLASH THEN <<BACKSLASH, BACKSLASH>>
                      ELSE IF value[i] = QUOTE THEN <<BACKSLASH, QUOTE>>
                      ELSE <<value[i]>>])
        \o <<QUOTE>>

ListClauseBuilt == pc = "done" /\ call.op = "buildJqlListClause"

\* C14: buildJqlListClause renders a list with exactly one non-blank value as
\* field = "v" and a list with several as field IN ("v1", "v2", ...) in the
\* given order, every value (taken without the white space around it) between
\* quotes with each backslash doubled and each quote preceded by a backslash;
\* statuses [Open, In Progress] give status IN ("Open", "In Progress").
C14_RendersListClause ==
    ListClauseBuilt =>
        LET values == NonBlankValues(call.values)
            quoted == [i \in 1..Len(values) |-> QuotedValue(values[i])]
        IN  /\ Len(values) = 1 => result.value = call.field \o <<SP, "=", SP>> \o quoted[1]
            /\ Len(values) > 1
                  => result.value = call.field \o <<SP, "I", "N", SP, "(">> \o Join(quoted, <<",", SP>>) \o <<")">>
            /\ (call.field = <<"s", "t", "a", "t", "u", "s">> /\ call.values = <<<<"O", "p", "e", "n">>, <<"I", "n", SP, "P", "r", "o", "g", "r", "e", "s", "s">>>>)
                  => result.value = <<"s", "t", "a", "t", "u", "s", SP, "I", "N", SP, "(", "\"", "O", "p", "e", "n", "\"", ",", SP, "\"", "I", "n", SP, "P", "r", "o", "g", "r", "e", "s", "s", "\"", ")">>

\* a list of two values, one of them with a backslash and a quote, was
\* rendered as an IN clause
C14_Witness ==
    /\ ListClauseBuilt
    /\ call.field = <<"s", "t", "a", "t", "u", "s">>
    /\ call.values = <<<<"O", "p", "e", "n">>, <<"b", "\\", "\"", "c">>>>
    /\ result.value = <<"s", "t", "a", "t", "u", "s", SP, "I", "N", SP, "(", "\"", "O", "p", "e", "n", "\"", ",", SP, "\"", "b", "\\", "\\", "\\", "\"", "c", "\"", ")">>

(***************************************************************************)
(* C12                                                                     *)
(***************************************************************************)
Blank(text) == Trim(text) = <<>>

AllBlank(values) == \A i \in 1..Len(values) : Blank(values[i])

\* updateIssue was given a summary of white space
EmptySummary == call.op = "updateIssue" /\ call.summary.given /\ Blank(call.summary.value)

EmptyCommentBody == call.op = "addComment" /\ Blank(call.body)

EmptyIssueKey == call.op = "assignIssueToSprint" /\ Blank(call.issueKey)

\* searchIssues without any filter and without a raw query, searchIssuesByJql
\* without a raw query
NoFilterNoRawQuery ==
    \/ /\ call.op = "searchIssues"
       /\ call.filter.projectKey = <<>>
       /\ Blank(call.filter.summaryContains) /\ Blank(call.filter.descriptionContains)
       /\ \A list \in {call.filter.issueKeys, call.filter.issueTypes,
                       call.filter.fixVersions, call.filter.affectedVersions,
                       call.filter.statuses, call.filter.priorities,
                       call.filter.severities} : AllBlank(list)
       /\ Blank(call.filter.jql)
    \/ call.op = "searchIssuesByJql" /\ Blank(call.jql)

\* assignIssueToSprint was given both a sprint id and a sprint name, or neither
SelectorConflict ==
    /\ call.op = "assignIssueToSprint"
    /\ call.sprintId.given = ~Blank(call.sprintName)

\* the sprints of the boards that have answered, each id once
SprintsListed ==
    DedupedSprints(Concat([b \in 1..Len(locals.sprintAnswers) |->
                              locals.sprintAnswers[b].sprints]), <<>>)

\* the positions of the listed sprints whose name matches the requested one
NameMatches ==
    {i \in 1..Len(SprintsListed) :
        normalizeLabelForMatch(SprintsListed[i].name)
            = normalizeLabelForMatch(call.sprintName)}

SprintsAllListed ==
    /\ call.op = "assignIssueToSprint"
    /\ locals.sprintAnswers # <<>>
    /\ \A b \in 1..Len(locals.sprintAnswers) : locals.sprintAnswers[b].settled

\* every board has answered and the requested name matches several sprints
AmbiguousSprintName == SprintsAllListed /\ Cardinality(NameMatches) > 1

RejectedUnsent == pc = "done" /\ result.status = "error" /\ reqs = <<>>

SprintIssuePosted == \E i \in 1..Len(reqs) : reqs[i].endpoint = PostSprintIssueRequest

C12_Witness == NoFilterNoRawQuery /\ call.op = "searchIssues" /\ RejectedUnsent

ResolvedSprintClosed ==
    /\ call.op = "assignIssueToSprint"
    /\ locals.sprint # NoSprint
    /\ ToLowerCase(Trim(locals.sprint.state)) = <<"c", "l", "o", "s", "e", "d">>

\* assignIssueToSprint with an issue key and a sprint name, without sprint id
BySprintNameOnly ==
    /\ call.op = "assignIssueToSprint"
    /\ ~Blank(call.issueKey)
    /\ ~call.sprintId.given
    /\ ~Blank(call.sprintName)

FailedUnassigned == pc = "done" /\ result.status = "error" /\ ~SprintIssuePosted

\* C16: assignIssueToSprint never issues the assignment request (POST
\* sprint/{id}/issue) and fails with an error when the resolved sprint is
\* closed, when neither or both of sprintId and sprintName are given, and
\* when sprintName matches no sprint or more than one.
C16_NoAssignmentToClosedOrUnresolved ==
    /\ ResolvedSprintClosed => FailedUnassigned
    /\ SelectorConflict => FailedUnassigned
    /\ (SprintsAllListed /\ Cardinality(NameMatches) # 1) => FailedUnassigned
    /\ (BySprintNameOnly /\ pc = "done" /\ Cardinality(NameMatches) # 1)
          => FailedUnassigned
    /\ SprintIssuePosted
          => /\ ~ResolvedSprintClosed /\ ~SelectorConflict
             /\ BySprintNameOnly => Cardinality(NameMatches) = 1

\* the sprint asked for by its id is closed: the call failed after the sprint
\* and its board were requested, without the assignment request
C16_Witness ==
    /\ ResolvedSprintClosed
    /\ call.sprintId = Some(3)
    /\ FailedUnassigned
    /\ result = Thrown(PlainError("Cannot assign issue to closed sprint"))
    /\ reqs[1].endpoint = GetSprintRequest

(***************************************************************************)
(* C15                                                                     *)
(***************************************************************************)
\* the coverage counters of a flow are ordered
CoverageOrdered(flow) ==
    /\ flow.coverage.statusesWithSample <= flow.coverage.statusesTotal
    /\ flow.coverage.statusesWithTransitions <= flow.coverage.statusesWithSample

\* the flows buildIssueTypeFlows has pushed during a getProjectBaseline call
FlowsPushed ==
    IF call.op = "getProjectBaseline" THEN locals.flows ELSE <<>>

\* the flows of the baseline a getProjectBaseline call returned
FlowsReturned ==
    IF BaselineAnswered /\ result.status = "ok"
    THEN result.value.workflow.issueTypeFlows
    ELSE <<>>

\* a request for the transitions of a sample issue failed
TransitionsFetchFailed ==
    \E i \in 1..Len(reqs) :
        reqs[i].endpoint = GetTransitionsRequest /\ reqs[i].answer = "failed"

\* C15: in every issue type flow buildIssueTypeFlows produces, pushed or
\* returned in the baseline, statusesWithSample is at most statusesTotal and
\* statusesWithTransitions is at most statusesWithSample, whatever the recent
\* issues and the answers to the transition requests (failures included) are.
C15_CoverageCountersOrdered ==
    /\ \A i \in 1..Len(FlowsPushed) : CoverageOrdered(FlowsPushed[i])
    /\ \A i \in 1..Len(FlowsReturned) : CoverageOrdered(FlowsReturned[i])

\* a returned flow with two sampled statuses out of more, of which only one
\* brought transitions, after a transitions request failed
C15_Witness ==
    /\ TransitionsFetchFailed
    /\ \E i \in 1..Len(FlowsReturned) :
           LET coverage == FlowsReturned[i].coverage
           IN  /\ coverage.statusesWithSample = 2
               /\ coverage.statusesWithSample < coverage.statusesTotal
               /\ coverage.statusesWithTransitions = 1
               /\ Len(FlowsReturned[i].transitions) = 2

(***************************************************************************)
(* C17                                                                     *)
(***************************************************************************)
\* a field of a listed transition is there and equals the requested status of
\* the call, trimmed, whatever the case of the letters
FieldIsRequested(field) ==
    field # <<>> /\ ToLowerCase(field) = ToLowerCase(Trim(call.status))

MatchesById(transition) == FieldIsRequested(transition.id)
MatchesByName(transition) == FieldIsRequested(transition.name)
MatchesByTarget(transition) == FieldIsRequested(transition.to)

MatchesAtAll(transition) ==
    MatchesById(transition) \/ MatchesByName(transition) \/ MatchesByTarget(transition)

\* the requests for a transition the call in progress has posted
TransitionPosts == {i \in 1..Len(reqs) : reqs[i].endpoint = PostTransitionRequest}

\* the listed transition the priority id, name, target status picks: the
\* first one matching by id if there is one, else the first one matching by
\* name, else the first one matching by target status; 0 when none matches
PickedByPriority ==
    LET listed == upstream.transitions
        byId == {i \in 1..Len(listed) : MatchesById(listed[i])}
        byName == {i \in 1..Len(listed) : MatchesByName(listed[i])}
        byTarget == {i \in 1..Len(listed) : MatchesByTarget(listed[i])}
    IN  IF byId # {} THEN FirstIndex(byId)
        ELSE IF byName # {} THEN FirstIndex(byName)
        ELSE FirstIndex(byTarget)

\* the first listed transition that matches by any of the three
PickedByListOrder ==
    FirstIndex({i \in 1..Len(upstream.transitions) :
                   MatchesAtAll(upstream.transitions[i])})

\* C17 as stated: the transition posted is the one the priority picks: one
\* matching by id before one matching only by name, one matching by name
\* before one matching only by target status, wherever they are listed.
C17_PicksByPriorityAsStated ==
    \A i \in TransitionPosts :
        /\ PickedByPriority # 0
        /\ reqs[i].transitionId = upstream.transitions[PickedByPriority].id

\* C17: the transition posted is the first listed transition that matches the
\* requested status by id, by name or by target status; the three kinds of
\* match rank alike and the order of the list decides. When that transition
\* has no id, nothing is posted.
C17_PicksFirstListedMatch ==
    /\ \A i \in TransitionPosts :
           /\ PickedByListOrder # 0
           /\ reqs[i].transitionId = upstream.transitions[PickedByListOrder].id
           /\ reqs[i].transitionId # <<>>
    /\ (locals.transition.applied /\ call.op \in {"createIssue", "updateIssue", "transitionIssue"})
           => TransitionPosts # {}

\* a transition matching only by name is listed before one matching by id,
\* and the first one was posted
C17_Witness ==
    /\ TransitionPosts # {}
    /\ Len(upstream.transitions) = 2
    /\ ~MatchesById(upstream.transitions[1]) /\ MatchesByName(upstream.transitions[1])
    /\ MatchesById(upstream.transitions[2])
    /\ \A i \in TransitionPosts : reqs[i].transitionId = upstream.transitions[1].id
    /\ upstream.transitions[1].id # upstream.transitions[2].id

(***************************************************************************)
(* C18                                                                     *)
(***************************************************************************)
\* the positions of the candidates whose id is the value as it stands
WithId(candidates, value) ==
    {i \in 1..Len(candidates) : candidates[i].id # <<>> /\ candidates[i].id = value}

\* the positions of the candidates named like the value, whatever the case
WithName(candidates, value) ==
    {i \in 1..Len(candidates) :
        /\ candidates[i].name # <<>>
        /\ ToLowerCase(Trim(candidates[i].name)) = ToLowerCase(Trim(value))}

IssueTypeResolved ==
    call.op = "resolveIssueTypeId" /\ pc = "done" /\ result.status = "ok"

VersionsResolved ==
    call.op = "resolveVersionIds" /\ pc = "done" /\ result.status = "ok"

\* the values resolveVersionIds looks up: trimmed, the empty ones left out
ValuesLookedUp == TrimmedNonEmpty(call.requested)

\* every requested version that is the id of a listed version resolves to
\* that id, every other one to the id of a version named like it
VersionsByIdFirst ==
    VersionsResolved =>
        \A k \in 1..Len(ValuesLookedUp) :
            LET value == ValuesLookedUp[k]
            IN  IF WithId(upstream.versions, value) # {}
                THEN value \in Range(result.value)
                ELSE \E i \in WithName(upstream.versions, value) :
                         upstream.versions[i].id \in Range(result.value)

\* C18 as stated: issue types and versions alike resolve by id over all the
\* candidates first: when a candidate has the requested value as its id, the
\* result is that id, whatever is listed before it.
C18_ByIdFirstAsStated ==
    /\ VersionsByIdFirst
    /\ (IssueTypeResolved /\ WithId(upstream.issueTypes, call.requested) # {})
           => result.value = call.requested

\* C18: versions resolve by id over all the listed versions first and by name
\* only then; an issue type resolves to the first listed issue type whose id
\* is the requested value or whose name is it in any case, so an issue type
\* listed earlier under that name is chosen over the one with that id.
C18_VersionsByIdIssueTypesByListOrder ==
    /\ VersionsByIdFirst
    /\ IssueTypeResolved =>
           LET candidates == upstream.issueTypes
               first == FirstIndex(WithId(candidates, call.requested)
                                       \cup WithName(candidates, call.requested))
           IN  first # 0 /\ result.value = candidates[first].id

\* the issue type listed first is named like the id of the second, and the
\* requested value resolved to the first
C18_Witness ==
    /\ IssueTypeResolved
    /\ Len(upstream.issueTypes) = 2
    /\ 1 \in WithName(upstream.issueTypes, call.requested)
    /\ WithId(upstream.issueTypes, call.requested) = {2}
    /\ result.value = upstream.issueTypes[1].id
    /\ result.value # call.requested

\* the same list of versions resolves the value to the second
C18_VersionWitness ==
    /\ VersionsResolved
    /\ Len(upstream.versions) = 2
    /\ ValuesLookedUp = <<<<"1">>>>
    /\ 1 \in WithName(upstream.versions, <<"1">>)
    /\ WithId(upstream.versions, <<"1">>) = {2}
    /\ result.value = <<<<"1">>>>

(***************************************************************************)
(* C19                                                                     *)
(***************************************************************************)
SearchCall == call.op \in {"searchIssues", "searchIssuesByJql"}

\* the i-th request of the call in progress failed: the baseline logs the
\* answer of every request, a search keeps the error its catch clause caught
FailedAt(i) ==
    IF "answer" \in DOMAIN reqs[i] THEN reqs[i].answer = "failed"
    ELSE SearchCall /\ i = 1 /\ reqs[1].endpoint = EnhancedSearch /\ locals.error # NoError

\* the status it failed with; 0 when the failure is no answer of the tracker
FailureStatusAt(i) ==
    IF "answer" \in DOMAIN reqs[i] THEN reqs[i].status ELSE locals.error.status

\* the endpoints that stand in for another one
AlternativeEndpoints ==
    {<<EnhancedSearch, LegacySearch>>,
     <<PrioritySearchRequest, PriorityListRequest>>,
     <<AssignableByProjectRequest, AssignableByProjectKeyRequest>>}

\* the i-th request follows a failed request and asks its alternative endpoint
SubstituteAt(i) ==
    /\ i > 1
    /\ FailedAt(i - 1)
    /\ <<reqs[i - 1].endpoint, reqs[i].endpoint>> \in AlternativeEndpoints

\* the requests whose failure is followed by a request of the same
\* sub-lookup: the two that have a substitute, and the ones the loops over
\* sample issues and boards make
OwnSubstitute(i) ==
    reqs[i].endpoint \in {PrioritySearchRequest, AssignableByProjectRequest,
                          GetTransitionsRequest, BoardSprintsRequest}

\* C19 as stated: a failed request is followed by a request to an alternative
\* endpoint only in a search, after the enhanced search failed with 404.
C19_OnlySearchFallsBackAsStated ==
    \A i \in 1..Len(reqs) :
        SubstituteAt(i) =>
            /\ SearchCall
            /\ reqs[i - 1].endpoint = EnhancedSearch
            /\ FailureStatusAt(i - 1) = 404

\* C19: a failed request is followed by a substitute request in three places:
\* a search asks the legacy endpoint after the enhanced search failed with
\* 404, and only then; getProjectBaseline asks the plain priority list after
\* the priority search failed, whatever the failure; and it asks for the
\* assignable users by projectKey after the request by project failed with
\* 400, and only then. Every other failed request of getProjectBaseline is
\* followed by the requests of another sub-lookup or, in the loops over sample
\* issues and boards, of the next item.
C19_ThreeFallbacks ==
    /\ \A i \in 1..Len(reqs) :
           SubstituteAt(i) =>
               \/ /\ SearchCall
                  /\ reqs[i - 1].endpoint = EnhancedSearch
                  /\ FailureStatusAt(i - 1) = 404
               \/ reqs[i - 1].endpoint = PrioritySearchRequest
               \/ /\ reqs[i - 1].endpoint = AssignableByProjectRequest
                  /\ FailureStatusAt(i - 1) = 400
    /\ \A i \in 1..Len(reqs) :
           (call.op = "getProjectBaseline" /\ FailedAt(i)) =>
               /\ reqs[i].endpoint = PrioritySearchRequest =>
                      (i < Len(reqs) /\ reqs[i + 1].endpoint = PriorityListRequest)
               /\ (reqs[i].endpoint = AssignableByProjectRequest /\ reqs[i].status = 400) =>
                      (i < Len(reqs) /\ reqs[i + 1].endpoint = AssignableByProjectKeyRequest)
               /\ (~OwnSubstitute(i) /\ i < Len(reqs)) =>
                      reqs[i + 1].lookup # reqs[i].lookup
    /\ (SearchCall /\ Len(reqs) > 0 /\ FailedAt(1) /\ FailureStatusAt(1) # 404) =>
           Len(reqs) = 1

\* a baseline call asked the plain priority list after the priority search
\* failed with 500, and asked for the assignable users by projectKey after
\* the request by project failed with 400
C19_Witness ==
    /\ call.op = "getProjectBaseline"
    /\ \E i \in 2..Len(reqs) :
           /\ SubstituteAt(i)
           /\ reqs[i].endpoint = PriorityListRequest
           /\ reqs[i - 1].status = 500
    /\ \E i \in 2..Len(reqs) :
           /\ SubstituteAt(i)
           /\ reqs[i].endpoint = AssignableByProjectKeyRequest

\* a search asked the legacy endpoint after the enhanced one failed with 404
C19_SearchWitness ==
    /\ SearchCall
    /\ Len(reqs) = 2
    /\ SubstituteAt(2)
    /\ FailureStatusAt(1) = 404

(***************************************************************************)
(* C20                                                                     *)
(***************************************************************************)
\* a label of a link type is there and shares an alias with the relation the
\* call asks for
LabelHit(label) ==
    /\ normalizeString(label) # <<>>
    /\ intersects(labelAliasSet(normalizeString(call.relation)),
                  labelAliasSet(normalizeString(label)))

\* one of the three tests of a link type that has a name passes
TypeHit(linkType) ==
    /\ normalizeString(linkType.name) # <<>>
    /\ (LabelHit(linkType.outward) \/ LabelHit(linkType.inward) \/ LabelHit(linkType.name))

\* the first link type of the answer one of whose tests passes; 0 without one
FirstTypeHit ==
    FirstIndex({i \in 1..Len(upstream.linkTypes) : TypeHit(upstream.linkTypes[i])})

\* the link a linkIssue call has posted, once its link types were answered
LinkPosted ==
    /\ call.op = "linkIssue"
    /\ \E i \in 1..Len(reqs) : reqs[i].endpoint = PostIssueLinkRequest

PostedLinkBody ==
    reqs[CHOOSE i \in 1..Len(reqs) : reqs[i].endpoint = PostIssueLinkRequest].body

C20_OrderWitness ==
    /\ LinkPosted
    /\ Len(upstream.linkTypes) = 2
    /\ FirstTypeHit = 1
    /\ ~LabelHit(upstream.linkTypes[1].outward) /\ LabelHit(upstream.linkTypes[1].inward)
    /\ LabelHit(upstream.linkTypes[2].outward)
    /\ locals.resolved.direction = "inward"

(***************************************************************************)
(* C21                                                                     *)
(***************************************************************************)
\* the loop of fetchAllIssueComments is waiting for a page
AllModeLoading == pc = "fetchAllIssueComments:page"

\* the call was answered in all mode
AllModeAnswered ==
    IssueAnswered /\ result.value.issue.commentsMeta.mode = "all"

\* the positions of the comment requests of the call, in the order issued
CommentRequests == {i \in 1..Len(reqs) : reqs[i].endpoint = GetCommentsRequest}

\* the number of comments the tracker serves for the request at position i
ServedAt(i) == Len(CommentPage(reqs[i].startAt, reqs[i].maxResults).comments)

\* pages of 100 from offset 0, each one starting where the page before it
\* ended, none asked for after an empty page or after the reported total was
\* reached
PagesInSequence ==
    \A i \in CommentRequests :
        /\ reqs[i].maxResults = 100
        /\ IF i - 1 \in CommentRequests
           THEN /\ reqs[i].startAt = reqs[i - 1].startAt + ServedAt(i - 1)
                /\ ServedAt(i - 1) > 0
                /\ upstream.reportsTotal => reqs[i].startAt < upstream.comments
           ELSE reqs[i].startAt = 0

\* the loop has stopped where it should: at an empty page or at the total
StoppedAtEnd ==
    LET last == CHOOSE i \in CommentRequests : \A j \in CommentRequests : j <= i
    IN  \/ ServedAt(last) = 0
        \/ reqs[last].startAt + ServedAt(last) >= upstream.comments

AllCommentsReturned ==
    LET N == upstream.comments
        comments == result.value.issue.comments
    IN  /\ Len(comments) = N
        /\ \A i \in 1..N : comments[i].id = i
        /\ result.value.issue.commentsMeta = CommentsMeta("all", N, N)

AllModeLoadsAll ==
    /\ (AllModeLoading \/ AllModeAnswered) => PagesInSequence
    /\ (AllModeAnswered /\ upstream.reportsTotal) =>
           (AllCommentsReturned /\ CommentRequests # {} /\ StoppedAtEnd)

\* C21: against a tracker that holds N comments and reports total = N, the
\* all mode asks for pages of 100 from offset 0, moves on by the size of each
\* page, stops at the first empty page or once the count reaches the total,
\* and returns all N comments oldest first with total = N and returned = N;
\* the loop always ends, with the answer or with the error of a request.
C21_AllModeLoadsEveryComment ==
    /\ []AllModeLoadsAll
    /\ AllModeLoading ~> (pc = "done")

\* five comments served three at a time: two pages were asked for, at 0 and
\* at 3, and all five came back
C21_Witness ==
    /\ AllModeAnswered
    /\ upstream.reportsTotal
    /\ upstream.comments = 5
    /\ Cardinality(CommentRequests) = 2
    /\ reqs[Len(reqs)].startAt = 3
    /\ Len(result.value.issue.comments) = 5

(***************************************************************************)
(* C22                                                                     *)
(***************************************************************************)
\* a step in which the transitions request of a sample issue fails
TransitionsFailureStep ==
    /\ pc = "listIssueTransitions"
    /\ reqs'[Len(reqs)].answer = "failed"

\* after it the loop is at a later status of the same issue type, which is
\* counted as sampled and whose transitions are asked for
AtNextStatus ==
    /\ pc' = "listIssueTransitions"
    /\ locals'.flowIndex = locals.flowIndex
    /\ locals'.statusIndex > locals.statusIndex
    /\ locals'.statusesWithSample = locals.statusesWithSample + 1
    /\ locals'.statusesWithTransitions = locals.statusesWithTransitions
    /\ locals'.edges = locals.edges
    /\ locals'.flows = locals.flows
    /\ Len(reqs') = Len(reqs) + 1
    /\ reqs'[Len(reqs')].endpoint = GetTransitionsRequest

\* or the flow of the issue type is pushed with the counters as they were,
\* the failed status counted as sampled only, and the loop is at the next
\* issue type or buildIssueTypeFlows has returned its flows
FlowPushed ==
    /\ Len(locals'.flows) = Len(locals.flows) + 1
    /\ SubSeq(locals'.flows, 1, Len(locals.flows)) = locals.flows
    /\ LET flow == locals'.flows[Len(locals'.flows)]
       IN  /\ flow.coverage.statusesWithSample = locals.statusesWithSample
           /\ flow.coverage.statusesWithTransitions = locals.statusesWithTransitions
           /\ Range(flow.transitions) = Range(locals.edges)
    /\ \/ /\ pc' = "fetchRecentIssueKeysByStatus"
          /\ locals'.flowIndex = locals.flowIndex + 1
       \/ /\ locals'.flowIndex = Len(locals.workflowIssueTypeStatuses)
          /\ locals'.issueTypeFlows = locals'.flows
          /\ "activeSprints" \in Range(locals'.attempted)

FailureSwallowed ==
    /\ result' = result
    /\ locals'.notes = locals.notes
    /\ locals.statusesWithSample > locals.statusesWithTransitions
    /\ (AtNextStatus \/ FlowPushed)

\* the flows of a baseline whose workflow transitions did not fail as a whole
\* are there, one per issue type
FlowsKept ==
    (/\ BaselineAnswered
     /\ result.status = "ok"
     /\ ~SubLookupFailed("workflowTransitions")
     /\ "workflowTransitions" \in Range(locals.attempted))
        => Len(result.value.workflow.issueTypeFlows) = Len(locals.workflowIssueTypeStatuses)

\* C22: a failed transitions request of a sample issue is swallowed: no error
\* is thrown and no note is written, the status stays counted in
\* statusesWithSample and not in statusesWithTransitions and adds no edge, the
\* request is not repeated, the loop goes on with the next sampled status or
\* the next issue type, and the flows are returned in the baseline.
C22_TransitionsFailureSwallowed ==
    /\ [][TransitionsFailureStep => FailureSwallowed]_vars
    /\ []FlowsKept

\* a baseline with two flows: in the first one a status was sampled, its
\* transitions request failed, and the second issue type was processed after
\* it
C22_Witness ==
    /\ BaselineAnswered /\ result.status = "ok"
    /\ Len(result.value.workflow.issueTypeFlows) = 2
    /\ LET first == result.value.workflow.issueTypeFlows[1]
           second == result.value.workflow.issueTypeFlows[2]
       IN  /\ first.coverage.statusesWithSample = 1
           /\ first.coverage.statusesWithTransitions = 0
           /\ first.transitions = <<>>
           /\ second.coverage.statusesWithTransitions > 0
    /\ TransitionsFetchFailed

\* within one issue type a later status brings transitions after the request
\* for an earlier one failed
C22_StatusWitness ==
    /\ BaselineAnswered /\ result.status = "ok"
    /\ \E k \in 1..Len(result.value.workflow.issueTypeFlows) :
           LET flow == result.value.workflow.issueTypeFlows[k]
           IN  /\ flow.coverage.statusesWithSample = 2
               /\ flow.coverage.statusesWithTransitions = 1
    /\ \E i \in 1..Len(reqs) :
           /\ reqs[i].endpoint = GetTransitionsRequest /\ reqs[i].answer = "failed"
           /\ i < Len(reqs)
           /\ reqs[i + 1].endpoint = GetTransitionsRequest /\ reqs[i + 1].answer = "ok"

(***************************************************************************)
(* C23                                                                     *)
(***************************************************************************)
FlowTransitionsBuilt == call.op = "buildIssueTypeFlows" /\ pc = "done"

\* the triple left comes before the triple right: by from, then by to, then
\* by transition name
TripleBefore(left, right) ==
    \/ LocaleLess(left.from, right.from)
    \/ left.from = right.from /\ LocaleLess(left.to, right.to)
    \/ left.from = right.from /\ left.to = right.to
          /\ LocaleLess(left.transition, right.transition)

\* the triples the listed transitions make from the sampled statuses: the
\* target and the name trimmed, the target standing in for a missing name,
\* transitions without a target left out
TriplesListed ==
    {[from |-> upstream.statusNames[s],
      to |-> Trim(upstream.transitions[t].to),
      transition |-> IF Trim(upstream.transitions[t].name) # <<>>
                     THEN Trim(upstream.transitions[t].name)
                     ELSE Trim(upstream.transitions[t].to)] :
        s \in 1..Len(upstream.statusNames),
        t \in {k \in 1..Len(upstream.transitions) : Trim(upstream.transitions[k].to) # <<>>}}

\* C23: the transitions of a flow hold every triple (from, to, transition)
\* once and are sorted ascending by from, then to, then transition name; the
\* list is a function of the set of triples, whatever the order statuses and
\* transitions were listed in.
C23_EdgesDistinctAndSorted ==
    FlowTransitionsBuilt =>
        LET edges == result.value
        IN  /\ \A i, j \in 1..Len(edges) : i < j => edges[i] # edges[j]
            /\ \A i \in 1..(Len(edges) - 1) : TripleBefore(edges[i], edges[i + 1])
            /\ Range(edges) = TriplesListed

\* statuses and transitions were listed in descending order, one transition
\* twice, and the flow holds four sorted edges
C23_Witness ==
    /\ FlowTransitionsBuilt
    /\ upstream.statusNames = <<<<"O", "p">>, <<"D", "o">>>>
    /\ upstream.transitions = <<JiraTransition(<<"1">>, <<"b">>, <<"D">>),
                                JiraTransition(<<"5">>, <<"b", SP>>, <<"D">>),
                                JiraTransition(<<"3">>, <<"a">>, <<"d">>)>>
    /\ Len(result.value) = 4
    /\ result.value[1] = [from |-> <<"D", "o">>, to |-> <<"d">>, transition |-> <<"a">>]
    /\ result.value[4] = [from |-> <<"O", "p">>, to |-> <<"D">>, transition |-> <<"b">>]

(***************************************************************************)
(* C24                                                                     *)
(***************************************************************************)
\* an edit request with the three fields has been issued
EditSent ==
    /\ call.op = "updateIssue" /\ "description" \in DOMAIN call
    /\ reqs # <<>>

EditedFields == reqs[1].fields

\* the field was left out, was null, or was a text that is not blank
LeftOut(input) == input.state = "undefined"
Cleared(input) == input.state = "null"
Given(input) == input.state = "value" /\ Trim(input.value) # <<>>

\* the payload carries the text given: the description as a document that
\* reads back as the text, the priority as its id or name, the severity in
\* the configured type
CarriesDescription(payload) ==
    payload.kind = "doc" /\ adfToPlainText(payload.doc) = Trim(call.description.value)

CarriesPriority(payload) ==
    payload.kind \in {"id", "name"} /\ payload.text = Trim(call.priority.value)

CarriesSeverity(payload) ==
    \/ payload.kind \in {"string", "option"} /\ payload.text = Trim(call.severity.value)
    \/ payload.kind = "number" /\ payload.number = DigitsValue(Trim(call.severity.value))

Projected == call.op = "toFocusedIssue" /\ pc = "done"

\* the subtasks upstream that have a key, as references, in upstream order
UpstreamRefs ==
    LET kept == SelectSeq(upstream.subtasks, HasCompactIssueRef)
    IN  [i \in 1..Len(kept) |-> toCompactIssueRef(kept[i])]

\* the sides of one link upstream, outward before inward
LinkSides(link) ==
    LET linkTypeName == normalizeString(link.type.name)
        outward == IF link.object /\ HasCompactIssueRef(link.outwardIssue)
                   THEN <<LinkedIssue(toCompactIssueRef(link.outwardIssue),
                                      LinkRelation(link.type.outward, linkTypeName),
                                      "outward", linkTypeName)>>
                   ELSE <<>>
        inward == IF link.object /\ HasCompactIssueRef(link.inwardIssue)
                  THEN <<LinkedIssue(toCompactIssueRef(link.inwardIssue),
                                     LinkRelation(link.type.inward, linkTypeName),
                                     "inward", linkTypeName)>>
                  ELSE <<>>
    IN  outward \o inward

RECURSIVE UpstreamSidesOf(_)
UpstreamSidesOf(links) ==
    IF links = <<>> THEN <<>>
    ELSE LinkSides(Head(links)) \o UpstreamSidesOf(Tail(links))

UpstreamSides == UpstreamSidesOf(upstream.issuelinks)

SameRef(left, right) == left.key = right.key
SameSide(left, right) ==
    /\ left.direction = right.direction
    /\ left.key = right.key
    /\ left.relation = right.relation

\* the entries of a list that no earlier entry equals under same, in order
FirstOccurrences(list, same(_, _)) ==
    LET firsts == {i \in 1..Len(list) : \A j \in 1..(i - 1) : ~same(list[j], list[i])}
        RECURSIVE Listed(_)
        Listed(i) ==
            IF i > Len(list) THEN <<>>
            ELSE IF i \in firsts THEN <<list[i]>> \o Listed(i + 1)
            ELSE Listed(i + 1)
    IN  Listed(1)

Distinct(list, same(_, _)) ==
    \A i, j \in 1..Len(list) : same(list[i], list[j]) => i = j

\* C25: the subtasks of a projected issue have one entry per issue key and
\* its linkedIssues one entry per direction, key and relation, each being the
\* first such entry upstream and standing in upstream order; projecting the
\* same record again gives the same lists
C25_RefsDistinctInFirstOrder ==
    Projected =>
        /\ Distinct(result.value.subtasks, SameRef)
        /\ Distinct(result.value.linkedIssues, SameSide)
        /\ result.value.subtasks = FirstOccurrences(UpstreamRefs, SameRef)
        /\ result.value.linkedIssues = FirstOccurrences(UpstreamSides, SameSide)
        /\ \A i \in 1..Len(locals.projected) : locals.projected[i] = result.value

\* a second projection of a record whose subtasks repeat a key with another
\* summary between two keys, or whose links repeat a side
C25_Witness ==
    /\ Projected
    /\ Len(locals.projected) = 2
    /\ Len(upstream.subtasks) = 3
    /\ Len(result.value.subtasks) = 2
    /\ result.value.subtasks[1].summary = <<"y">>
    /\ toCompactIssueRef(upstream.subtasks[2]).summary = <<"x">>
    /\ toCompactIssueRef(upstream.subtasks[2]).key = result.value.subtasks[1].key

C25_LinksWitness ==
    /\ Projected
    /\ Len(locals.projected) = 2
    /\ Len(UpstreamSides) = 3
    /\ Len(result.value.linkedIssues) = 2
    /\ result.value.linkedIssues[1].direction = "outward"
    /\ result.value.linkedIssues[2].direction = "inward"
    /\ result.value.linkedIssues[1].key = result.value.linkedIssues[2].key

(***************************************************************************)
(* C26                                                                     *)
(***************************************************************************)
FetchingSprints == call.op = "fetchSprintsFromBoards"
SprintsMerged == FetchingSprints /\ pc = "done"

\* the boards whose request succeeded, by their place in the list
AnsweredBoards == {b \in 1..Len(call.boards) : locals.answers[b].ok}

\* the place of a sprint id in the valid sprints of the board at place b,
\* 0 when the board does not have it
PlaceOnBoard(sprintId, b) ==
    LET sprints == SummariesOf(BoardSprintsAnswer(call.boards[b].id), call.boards[b])
        places == {k \in 1..Len(sprints) : sprints[k].id = sprintId}
    IN  IF places = {} THEN 0 ELSE CHOOSE k \in places : \A other \in places : k <= other

\* the first answered board, in list order, that has the sprint; 0 if none
OwnerOf(sprintId) ==
    LET owners == {b \in AnsweredBoards : PlaceOnBoard(sprintId, b) > 0}
    IN  IF owners = {} THEN 0 ELSE CHOOSE b \in owners : \A other \in owners : b <= other

KnownSprintIds ==
    UNION {{BoardSprintsAnswer(id)[k].id : k \in 1..Len(BoardSprintsAnswer(id))} :
              id \in 1..(MaxSprintBoards + 1)}

\* the sprint as its owner gives it
OwnedSprint(sprintId) ==
    SummariesOf(BoardSprintsAnswer(call.boards[OwnerOf(sprintId)].id),
                call.boards[OwnerOf(sprintId)])[PlaceOnBoard(sprintId, OwnerOf(sprintId))]

ExpectedSprints == {OwnedSprint(sprintId) : sprintId \in {s \in KnownSprintIds : OwnerOf(s) > 0}}

\* by state rank, then by name, then as the boards list them
SprintPrecedes(left, right) ==
    \/ SprintBefore(left, right)
    \/ /\ ~SprintBefore(right, left)
       /\ \/ OwnerOf(left.id) < OwnerOf(right.id)
          \/ /\ OwnerOf(left.id) = OwnerOf(right.id)
             /\ PlaceOnBoard(left.id, OwnerOf(left.id))
                    < PlaceOnBoard(right.id, OwnerOf(right.id))

\* every board has its request, issued before any answer
OneRequestPerBoard ==
    /\ Len(reqs) = Len(call.boards)
    /\ \A i \in 1..Len(reqs) :
           reqs[i].endpoint = BoardSprintsRequest /\ reqs[i].board = call.boards[i].id

\* C26: fetchSprintsFromBoards has one sprint request per board in flight at
\* once; whatever the order in which they complete, it returns each sprint
\* id of the boards that answered once, as the first such board in list
\* order gives it, sorted by state rank and name; a board whose request
\* failed adds nothing and the call still returns
C26_MergedSprintsIndependentOfCompletionOrder ==
    /\ FetchingSprints => OneRequestPerBoard
    /\ SprintsMerged =>
           /\ result.status = "ok"
           /\ {result.value[i] : i \in 1..Len(result.value)} = ExpectedSprints
           /\ Len(result.value) = Cardinality(ExpectedSprints)
           /\ \A i, j \in 1..Len(result.value) :
                  i < j => SprintPrecedes(result.value[i], result.value[j])

\* the second board of the list answered before the first, a third failed,
\* and the sprint both have is given as the first board has it
C26_Witness ==
    /\ SprintsMerged
    /\ Len(call.boards) = 3
    /\ locals.order[1] = 2
    /\ 1 \in AnsweredBoards /\ 2 \in AnsweredBoards /\ 3 \notin AnsweredBoards
    /\ \E i \in 1..Len(result.value) :
           /\ result.value[i].board = call.boards[1]
           /\ PlaceOnBoard(result.value[i].id, 2) > 0

(***************************************************************************)
(* C27                                                                     *)
(***************************************************************************)
UpdatingIssue == call.op = "updateIssue"

TransitionRequestAt(i) ==
    reqs[i].endpoint \in {GetTransitionsRequest, PostTransitionRequest}

EditRequestAt(i) == reqs[i].endpoint = PutIssueRequest

NoTransitionRequest == \A i \in 1..Len(reqs) : ~TransitionRequestAt(i)

\* the edit request is in flight
EditPending == UpdatingIssue /\ pc = "updateIssue:put"

\* the edit request fails: the call ends with the error
EditFails == EditPending /\ pc' = "done"

\* the edit request succeeds: the call goes on
EditSucceeds == EditPending /\ pc' # "done" /\ pc' # "updateIssue:put"

\* with fields to change, a request of the transition comes after the edit
\* request, and none is there while the edit is in flight
EditBeforeTransition ==
    UpdatingIssue =>
        /\ EditPending => NoTransitionRequest
        /\ \A i \in 1..Len(reqs) :
               (TransitionRequestAt(i) /\ locals.fields # {})
                   => \E j \in 1..(i - 1) : EditRequestAt(j)

\* C27: updateIssue with field changes and a status sends the edit request
\* first; the lookup of the transitions and the transition request are
\* issued only once the edit has succeeded, and a failed edit ends the call
\* with its error and without any request of the transition
C27_EditBeforeTransition ==
    /\ []EditBeforeTransition
    /\ [][EditFails => (result'.status = "error" /\ reqs' = reqs
                           /\ \A i \in 1..Len(reqs') : ~TransitionRequestAt(i))]_vars
    /\ [][(EditSucceeds /\ Trim(call.status) # <<>>)
              => (reqs' = Append(reqs, [endpoint |-> GetTransitionsRequest])
                     /\ EditRequestAt(Len(reqs)))]_vars

\* an update of the summary and the status: edited, looked up, transitioned
C27_Witness ==
    /\ UpdatingIssue
    /\ locals.fields # {}
    /\ \E i, j, k \in 1..Len(reqs) :
           /\ i < j /\ j < k
           /\ EditRequestAt(i)
           /\ reqs[j].endpoint = GetTransitionsRequest
           /\ reqs[k].endpoint = PostTransitionRequest

\* an update of the summary and the status whose edit failed
C27_FailedEditWitness ==
    /\ UpdatingIssue
    /\ Trim(call.status) # <<>>
    /\ pc = "done" /\ result.status = "error"
    /\ reqs # <<>> /\ EditRequestAt(Len(reqs))

(***************************************************************************)
(* C28                                                                     *)
(***************************************************************************)
\* searchIssues has returned a page read from the legacy endpoint
LegacyPageReturned ==
    /\ call.op = "searchIssues"
    /\ pc = "done"
    /\ result.status = "ok"
    /\ result.value.mode = "legacy"

\* the start offset of the legacy request
RequestedStartAt == reqs[Len(reqs)].startAt

\* no issue of the result set lies after the returned page
ResultSetExhausted ==
    RequestedStartAt + Len(result.value.issues) >= upstream.total

\* C28: a legacy page of searchIssues has nextPageToken = null exactly when
\* the result set is exhausted; otherwise the token is the text of an offset
\* greater than the requested one and below the total, which the next call
\* parses back to that offset, so that the offsets of a chain of calls grow
\* until the token is null
C28_LegacyTokenAdvances ==
    LegacyPageReturned =>
        /\ (result.value.nextPageToken = <<>>) <=> ResultSetExhausted
        /\ result.value.nextPageToken # <<>> =>
               LET next == parseNextPageToken(result.value.nextPageToken)
               IN  /\ next.ok
                   /\ next.value > RequestedStartAt
                   /\ next.value < upstream.total
                   /\ next.value = RequestedStartAt + Len(result.value.issues)

\* the token of a legacy page was followed, and the page it led to is the
\* last one
C28_Witness ==
    /\ LegacyPageReturned
    /\ history.lastMode = "legacy"
    /\ history.lastToken # <<>>
    /\ call.nextPageToken = history.lastToken
    /\ RequestedStartAt > 2
    /\ result.value.issues # <<>>
    /\ result.value.nextPageToken = <<>>

\* a legacy page with a successor
C28_TokenWitness ==
    /\ LegacyPageReturned
    /\ call.nextPageToken = history.lastToken
    /\ history.lastToken # <<>>
    /\ result.value.nextPageToken # <<>>

(***************************************************************************)
(* C29                                                                     *)
(***************************************************************************)
\* the call continues from the token the previous call returned
FollowsIssuedToken ==
    /\ call.op = "searchIssues"
    /\ history.lastToken # <<>>
    /\ call.nextPageToken = history.lastToken

\* the token of the call is the cursor of an enhanced request
SentAsEnhancedCursor ==
    \E i \in 1..Len(reqs) :
        /\ reqs[i].endpoint = EnhancedSearch
        /\ reqs[i].nextPageToken = call.nextPageToken

\* the token of the call was parsed into the start offset of a legacy request
ParsedAsLegacyOffset ==
    \E i \in 1..Len(reqs) :
        /\ reqs[i].endpoint = LegacySearch
        /\ parseNextPageToken(call.nextPageToken).ok
        /\ reqs[i].startAt = parseNextPageToken(call.nextPageToken).value

\* C29: over searchIssues calls between which the enhanced endpoint comes
\* and goes, the token a legacy page returned is never the cursor of an
\* enhanced request and the token an enhanced page returned is never parsed
\* into a legacy start offset
C29_TokensStayInTheirFamily ==
    FollowsIssuedToken =>
        /\ history.lastMode = "legacy" => ~SentAsEnhancedCursor
        /\ history.lastMode = "enhanced" => ~ParsedAsLegacyOffset

(***************************************************************************)
(* C30                                                                     *)
(***************************************************************************)
InternalQueryBuilt ==
    /\ call.op \in {"fetchRecentIssueKeysByStatus", "countRecentAssignedIssuesByUser"}
    /\ pc = "done"

\* the filter clauses of the internal query that was built
InternalFilterClauses ==
    IF call.op = "fetchRecentIssueKeysByStatus"
    THEN <<<<"p", "r", "o", "j", "e", "c", "t", SP, "=", SP>> \o quoteJqlLiteral(call.projectKey),
           <<"i", "s", "s", "u", "e", "t", "y", "p", "e", SP, "=", SP>> \o quoteJqlLiteral(call.issueTypeName)>>
    ELSE <<<<"p", "r", "o", "j", "e", "c", "t", SP, "=", SP>> \o quoteJqlLiteral(call.projectKey),
           <<"u", "p", "d", "a", "t", "e", "d", SP, ">", "=", SP, "-">> \o NatToString(call.days) \o <<"d">>>>

\* the text ends with the suffix
EndsWith(text, suffix) ==
    /\ Len(text) >= Len(suffix)
    /\ SubSeq(text, Len(text) - Len(suffix) + 1, Len(text)) = suffix

\* C30: a query the adapter builds for its own searches is its filter
\* clauses joined by AND, followed by ORDER BY updated DESC; the ORDER BY
\* clause is not joined to the filter clauses with AND
C30_OrderByFollowsFilters ==
    InternalQueryBuilt =>
        /\ result.value = Join(InternalFilterClauses, AndSeparator) \o OrderBySuffix
        /\ ~EndsWith(result.value, AndSeparator \o <<"O", "R", "D", "E", "R", SP, "B", "Y", SP, "u", "p", "d", "a", "t", "e", "d", SP, "D", "E", "S", "C">>)

\* the workflow sampling query of a project and an issue type
C30_Witness ==
    /\ InternalQueryBuilt
    /\ call.op = "fetchRecentIssueKeysByStatus"
    /\ call.projectKey = <<"P">> /\ call.issueTypeName = <<"B", "u", "g">>
    /\ result.value = <<"p", "r", "o", "j", "e", "c", "t", SP, "=", SP, "\"", "P", "\"", SP, "A", "N", "D", SP, "i", "s", "s", "u", "e", "t", "y", "p", "e", SP, "=", SP, "\"", "B", "u", "g", "\"", SP, "A", "N", "D", SP, "O", "R", "D", "E", "R", SP, "B", "Y", SP, "u", "p", "d", "a", "t", "e", "d", SP, "D", "E", "S", "C">>

\* the legacy token of the previous page reaches the enhanced endpoint, which
\* has come back in between
C29_Witness ==
    /\ FollowsIssuedToken
    /\ history.lastMode = "legacy"
    /\ upstream.enhancedAvailable
    /\ SentAsEnhancedCursor

====
